---- MODULE Spec2Model ----
(***************************************************************************)
(* Claim provenance ledger of cognitive_book_os (claim_store.py, brain.py). *)
(*                                                                         *)
(* One knowledge base ("brain") is modelled: its snapshot document         *)
(* meta/claims_current.json, its event log meta/claims_events.jsonl and    *)
(* its advisory lock meta/claims.lock, together with the processes that    *)
(* call ClaimStore.track_file_claims, ClaimStore.build_query_audit and     *)
(* ClaimStore.list_claims on it.  A handler is split into steps exactly at *)
(* the points where it touches the shared files or the lock, so that the   *)
(* interleavings the operating system allows are the interleavings of the  *)
(* model.                                                                  *)
(*                                                                         *)
(* Strings are atoms; the conversions the code applies to them             *)
(* (_normalize_text, _tokenize) are tables over the atoms in use.  The     *)
(* sha256-based _make_short_hash is modelled as the tuple of the           *)
(* normalised parts it hashes (48-bit collisions are not modelled).        *)
(***************************************************************************)
EXTENDS Integers, Sequences, FiniteSets, TLC

VARIABLES
    env,        \* value of the PROVENANCE_ENFORCEMENT environment variable
    snapFile,   \* meta/claims_current.json as it is on disk
    events,     \* meta/claims_events.jsonl: the records, in file order
    runs,       \* meta/claims_runs.jsonl: the records, in file order
    lock,       \* holder of the flock on meta/claims.lock, or NoProc
    calls,      \* number of calls begun so far
    clock,      \* the time: the value _now_iso() returned last
    pc,         \* position of each process in the handler it runs
    call,       \* arguments of the call each process runs
    work,       \* local variables of the call each process runs
    result,     \* outcome of the last call each process finished
    lastTracked, \* history: the (file, content) of the call that saved last
    brainsDir,  \* the knowledge bases under brains/: name -> ledger, or absent
    versioning, \* value of the ENABLE_CLAIM_VERSIONING environment variable
    request,    \* arguments of the multi-brain query
    orch,       \* local variables of orchestrate_multi_brain_query
    modelCalls  \* history: the language-model calls made, in order

ledgerVars == <<env, snapFile, events, runs, lock, calls, clock, pc, call, work, result, lastTracked>>

orchVars == <<brainsDir, versioning, request, orch, modelCalls>>

vars == <<ledgerVars, orchVars>>

----------------------------------------------------------------------------
(* Bounds and input sets                                                   *)

MaxCalls == 3

\* A process is one run; its name is its run id.  Both runs write claims
\* (ingest, enrichment); the second one also serves queries and reads.
Procs == {"r1", "r2"}
Queriers == {"r2"}
NoProc == "none"
\* Values of PROVENANCE_ENFORCEMENT: not set, and three settings.
EnvValues == {"unset", "STRICT", "off", "loud"}

T1  == "The reactor starts at dawn."
T1v == "the reactor starts at dawn."
T2  == "Coolant flows north today."
T3  == "The reactor start does work."
T4  == "Steam rises slowly."
T5  == "When does coolant flow?"
T6  == "Reactor starts at noon."
Q1  == "The reactor starts at dawn"
S2  == "Coolant flows north today"

NoId == <<>>

\* A file's content after _split_frontmatter, _extract_quotes and
\* _extract_claim_lines: the default source of the frontmatter, the quotes
\* with their "(Source: X)" annotation, and the de-duplicated claim lines.
Content(lines, quotes, source) ==
    [claim_lines |-> lines, quotes |-> quotes, source |-> source]

Quoted == <<[text |-> Q1, source |-> "Chapter 1"]>>

ContentOne   == Content(<<T1>>, Quoted, "chapter_1")
ContentThree == Content(<<T1, T1v, T2>>, Quoted, "chapter_1")
ContentBare  == Content(<<T2>>, <<>>, "")
ContentNoLoc == Content(<<T1>>, <<[text |-> Q1, source |-> ""]>>, "")
ContentEmpty == Content(<<>>, <<>>, "")
ContentFive  == Content(<<T1, T2, T3, T4, T5>>, Quoted, "chapter_1")
ContentFour  == Content(<<T2, T4, T1, T3>>, Quoted, "chapter_1")

Contents == {ContentEmpty, ContentOne, ContentThree, ContentBare, ContentNoLoc}

\* The (file, content) pairs a run writes: the first run rewrites one file
\* with any of the contents; the second run rewrites that file with two of
\* them (one without warnings, one with) and writes a second file.
TrackInputs(p) ==
    IF p \in Queriers
    THEN {[file_path |-> "facts/a.md", content |-> c] : c \in {ContentOne, ContentBare}}
         \cup {[file_path |-> "facts/b.md", content |-> ContentOne]}
    ELSE {[file_path |-> "facts/a.md", content |-> c] : c \in Contents}

----------------------------------------------------------------------------
(* Text helpers                                                            *)

\* re.sub(r"\s+", " ", value.strip().lower())
_normalize_text(s) ==
    CASE s = T1 -> T1v
      [] s = Q1 -> "the reactor starts at dawn"
      [] s = T2 -> "coolant flows north today."
      [] s = T3 -> "the reactor start does work."
      [] s = T4 -> "steam rises slowly."
      [] s = T5 -> "when does coolant flow?"
      [] s = T6 -> "reactor starts at noon."
      [] s = S2 -> "coolant flows north today"
      [] s = "Chapter 1" -> "chapter 1"
      [] OTHER -> s

\* lower-cased [a-zA-Z0-9_]+ runs of length >= 4
_tokenize(s) ==
    CASE s \in {T1, T1v, Q1} -> {"reactor", "starts", "dawn"}
      [] s \in {T2, S2} -> {"coolant", "flows", "north", "today"}
      [] s = T3 -> {"reactor", "start", "does", "work"}
      [] s = T4 -> {"steam", "rises", "slowly"}
      [] s = T5 -> {"when", "does", "coolant", "flow"}
      [] s = T6 -> {"reactor", "starts", "noon"}
      [] s \in {"facts/a", "facts/b", "facts/zzz"} -> {"facts"}
      [] OTHER -> {}

_make_short_hash(parts) == [i \in DOMAIN parts |-> _normalize_text(parts[i])]

\* os.getenv(name, "warn").strip().lower(), and "warn" for any other word
provenance_enforcement_mode(e) ==
    LET mode == CASE e = "unset" -> "warn"
                  [] e = "STRICT" -> "strict"
                  [] OTHER -> e
    IN  IF mode \in {"warn", "strict", "off"} THEN mode ELSE "warn"

----------------------------------------------------------------------------
(* dict[str, ClaimSnapshot] with Python's insertion order: a sequence of   *)
(* snapshots, at most one per claim_id.                                    *)

Keys(d) == {d[i].claim_id : i \in DOMAIN d}

Has(d, k) == k \in Keys(d)

Get(d, k) == d[CHOOSE i \in DOMAIN d : d[i].claim_id = k]

Put(d, v) ==
    IF Has(d, v.claim_id)
    THEN [i \in DOMAIN d |-> IF d[i].claim_id = v.claim_id THEN v ELSE d[i]]
    ELSE Append(d, v)

----------------------------------------------------------------------------
(* Claim extractor                                                         *)

NoQuote == [text |-> "", source |-> ""]

Overlap(claim_text, quote) ==
    Cardinality(_tokenize(claim_text) \cap _tokenize(quote.text))

\* The first index whose score is the highest one (the loop replaces best
\* only on a strictly greater score).
BestIndex(scores) ==
    CHOOSE i \in DOMAIN scores :
        /\ \A j \in DOMAIN scores : scores[j] <= scores[i]
        /\ \A j \in 1..(i - 1) : scores[j] < scores[i]

_choose_quote_for_claim(claim_text, quotes) ==
    IF quotes = <<>> THEN NoQuote
    ELSE quotes[BestIndex([j \in DOMAIN quotes |-> Overlap(claim_text, quotes[j])])]

SourceLocator(quote, content) ==
    IF quote.source # "" THEN quote.source
    ELSE IF content.source # "" THEN content.source
    ELSE "unknown"

ClaimId(file_path, claim_text, evidence_quote, source_locator) ==
    _make_short_hash(<<file_path, claim_text, evidence_quote, source_locator>>)

RevisionId(claim_id, run_id, now) == <<claim_id, run_id, now>>

\* ClaimSnapshot(...) of a newly extracted claim
ClaimSnapshot(claim_id, file_path, claim_text, evidence_quote, source_locator, run_id, now) ==
    [claim_id       |-> claim_id,
     revision_id    |-> RevisionId(claim_id, run_id, now),
     status         |-> "active",
     file_path      |-> file_path,
     claim_text     |-> claim_text,
     evidence_quote |-> evidence_quote,
     source_locator |-> source_locator,
     created_at     |-> now,
     updated_at     |-> now,
     created_by_run |-> run_id,
     updated_by_run |-> run_id]

\* The body of the extraction loop once the quote and its locator are known.
ExtractLocated(file_path, run_id, now, claim_text, evidence_quote, source_locator) ==
    ClaimSnapshot(ClaimId(file_path, claim_text, evidence_quote, source_locator),
                  file_path, claim_text, evidence_quote, source_locator, run_id, now)

ExtractQuoted(file_path, content, run_id, now, claim_text, quote) ==
    ExtractLocated(file_path, run_id, now, claim_text, quote.text,
                   SourceLocator(quote, content))

ExtractOne(file_path, content, run_id, now, claim_text) ==
    ExtractQuoted(file_path, content, run_id, now, claim_text,
                  _choose_quote_for_claim(claim_text, content.quotes))

WarningsOne(snapshot) ==
    (IF snapshot.evidence_quote = ""
     THEN <<[kind |-> "Missing direct quote for claim", text |-> snapshot.claim_text]>>
     ELSE <<>>)
    \o
    (IF snapshot.source_locator = "unknown"
     THEN <<[kind |-> "Missing source locator for claim", text |-> snapshot.claim_text]>>
     ELSE <<>>)

RECURSIVE FlattenWarnings(_)
FlattenWarnings(snapshots) ==
    IF snapshots = <<>> THEN <<>>
    ELSE WarningsOne(Head(snapshots)) \o FlattenWarnings(Tail(snapshots))

\* The pair (snapshots, warnings) the extraction returns, as a record.
WithWarnings(snapshots) ==
    [snapshots |-> snapshots,
     warnings  |-> FlattenWarnings(snapshots) \o
                   (IF snapshots = <<>>
                    THEN <<[kind |-> "No claim candidates extracted from file content",
                            text |-> ""]>>
                    ELSE <<>>)]

_extract_claim_snapshots(file_path, content, run_id, now) ==
    WithWarnings([i \in DOMAIN content.claim_lines |->
                     ExtractOne(file_path, content, run_id, now, content.claim_lines[i])])

----------------------------------------------------------------------------
(* Ledger storage                                                          *)

ClaimEvent(event_type, run_id, claim_id, revision_id, file_path, payload) ==
    [event_type  |-> event_type,
     run_id      |-> run_id,
     claim_id    |-> claim_id,
     revision_id |-> revision_id,
     file_path   |-> file_path,
     payload     |-> payload]

\* open(target, "a") and one write: the record goes after the existing ones.
_append_jsonl_truncating(log, records) == records

_append_jsonl(log, records) == log \o records

\* Brain.read_file + _read_json + load_current_claims: a missing, empty or
\* unparsable document yields no claims.
load_current_claims_active_only(file) ==
    IF file.state = "full"
    THEN SelectSeq(file.claims, LAMBDA c : c.status = "active")
    ELSE <<>>

load_current_claims(file) ==
    IF file.state = "full" THEN file.claims ELSE <<>>

NoFile == [state |-> "absent", claims |-> <<>>]

\* Brain.write_file is Path.write_text: open(path, "w") truncates the
\* document, the text is then written (buffer by buffer when it is long),
\* and only then is the document whole again.  Truncated stands for the
\* document between the two: empty, or a proper prefix of the JSON text,
\* which json.loads rejects like the empty text.
Truncated == [state |-> "truncated", claims |-> <<>>]

Written_without_claims(claims) == [state |-> "full", claims |-> <<>>]

Written(claims) == [state |-> "full", claims |-> claims]

----------------------------------------------------------------------------
(* Claim lifecycle engine: the two loops of track_file_claims              *)

ExistingIsActive_wrong_constant(current, claim_id) == FALSE

\* existing = current.get(claim_id); existing and existing.status == ACTIVE
ExistingIsActive(current, claim_id) ==
    /\ Has(current, claim_id)
    /\ Get(current, claim_id).status = "active"

Refreshed_as_new(claim, existing, run_id, now) == claim

\* Lines 422-426: the extracted claim takes over the revision and the
\* creation fields of the active entry it replaces.
Refreshed(claim, existing, run_id, now) ==
    [claim EXCEPT !.revision_id    = existing.revision_id,
                  !.created_at     = existing.created_at,
                  !.created_by_run = existing.created_by_run,
                  !.updated_at     = now,
                  !.updated_by_run = run_id]

\* for claim in extracted: refresh an active claim in place, else insert it
\* and emit claim_created.
RECURSIVE RefreshOrCreate(_, _, _, _)
RefreshOrCreate(st, extracted, run_id, now) ==
    IF extracted = <<>> THEN st
    ELSE LET claim == Head(extracted)
             isActive == ExistingIsActive(st.current, claim.claim_id)
             existing == Get(st.current, claim.claim_id)
             refreshed == Refreshed(claim, existing, run_id, now)
             next == IF isActive
                     THEN [st EXCEPT !.current   = Put(st.current, refreshed),
                                     !.unchanged = @ + 1]
                     ELSE [st EXCEPT !.current = Put(st.current, claim),
                                     !.created = @ + 1,
                                     !.emitted = Append(@,
                                         ClaimEvent("claim_created", run_id, claim.claim_id,
                                                    claim.revision_id, claim.file_path,
                                                    [kind |-> "claim_text",
                                                     text |-> claim.claim_text]))]
         IN  RefreshOrCreate(next, Tail(extracted), run_id, now)

SupersedeAbsent_none(st, active_for_file, new_ids, run_id, now) == st

\* for old_id, old_claim in active_for_file.items(): supersede the claims
\* that the new extraction does not contain and emit claim_superseded.
RECURSIVE SupersedeAbsent(_, _, _, _, _)
SupersedeAbsent(st, active_for_file, new_ids, run_id, now) ==
    IF active_for_file = <<>> THEN st
    ELSE LET old_claim == Head(active_for_file)
             marked == [old_claim EXCEPT !.status         = "superseded",
                                         !.updated_at     = now,
                                         !.updated_by_run = run_id]
             next == IF old_claim.claim_id \in new_ids
                     THEN st
                     ELSE [st EXCEPT !.current    = Put(st.current, marked),
                                     !.superseded = @ + 1,
                                     !.emitted    = Append(@,
                                         ClaimEvent("claim_superseded", run_id,
                                                    old_claim.claim_id, old_claim.revision_id,
                                                    old_claim.file_path,
                                                    [kind |-> "reason",
                                                     text |-> "not_present_in_latest_file_revision"]))]
         IN  SupersedeAbsent(next, Tail(active_for_file), new_ids, run_id, now)

ActiveForFile_any_file(current, file_path) ==
    SelectSeq(current, LAMBDA c : c.status = "active")

ActiveForFile(current, file_path) ==
    SelectSeq(current, LAMBDA c : c.file_path = file_path /\ c.status = "active")

\* Lines 404-463 of track_file_claims: the two loops run on the local
\* variables (the snapshot, the counters, the events to append, the
\* warnings of the extraction), and the second loop sees the claims that
\* were active for the file before the first one ran.
ReconcileExtracted(current, file_path, run_id, now, ex) ==
    SupersedeAbsent(
        RefreshOrCreate([current |-> current, created |-> 0, unchanged |-> 0,
                         superseded |-> 0, emitted |-> <<>>, warnings |-> ex.warnings],
                        ex.snapshots, run_id, now),
        ActiveForFile(current, file_path),
        {ex.snapshots[i].claim_id : i \in DOMAIN ex.snapshots},
        run_id, now)

\* Lines 401-463 of track_file_claims, from the loaded snapshot to the state
\* of the local variables before the warning loop.
Reconcile(current, file_path, content, run_id, now) ==
    ReconcileExtracted(current, file_path, run_id, now,
                       _extract_claim_snapshots(file_path, content, run_id, now))

WarningEvents(warnings, run_id, file_path) ==
    [i \in DOMAIN warnings |->
        ClaimEvent("provenance_warning", run_id, NoId, <<>>, file_path, warnings[i])]

----------------------------------------------------------------------------
(* Readers                                                                 *)

\* list.sort(key, reverse=True): stable, highest key first.
\* The argument is a sequence of [key, item] pairs.
RECURSIVE SortDescending(_)
SortDescending(pairs) ==
    IF pairs = <<>> THEN <<>>
    ELSE LET n    == Len(pairs)
             init == SortDescending(SubSeq(pairs, 1, n - 1))
             x    == pairs[n]
             k    == Cardinality({i \in DOMAIN init : init[i].key >= x.key})
         IN  SubSeq(init, 1, k) \o <<x>> \o SubSeq(init, k + 1, Len(init))

Items(pairs) == [i \in DOMAIN pairs |-> pairs[i].item]

DefaultLimit == 100

Max(a, b) == IF a >= b THEN a ELSE b
Min(a, b) == IF a <= b THEN a ELSE b

\* file_path and status are "" when the filter is not given.
list_claims(file, file_path, status, limit, offset) ==
    LET all     == load_current_claims(file)
        byFile  == IF file_path # "" THEN SelectSeq(all, LAMBDA c : c.file_path = file_path)
                   ELSE all
        byState == IF status # "" THEN SelectSeq(byFile, LAMBDA c : c.status = status)
                   ELSE byFile
        sorted  == Items(SortDescending(
                       [i \in DOMAIN byState |->
                           [key |-> byState[i].updated_at, item |-> byState[i]]]))
    IN  SubSeq(sorted, offset + 1, Min(Len(sorted), offset + Max(limit, 0)))

----------------------------------------------------------------------------
(* Query auditor                                                           *)

\* An answer is a text: the sequence of its pieces, where the characters
\* the code looks at (the sentence terminators, the brackets) are pieces of
\* their own and every other piece is a run of other characters.  The
\* citation "[facts/a.md]" is the pieces "[", "facts/a", ".", "md", "]".
Terminators == {".", "!", "?", "\n"}

\* [stmt.strip() for stmt in re.split(r"[\n.!?]+", answer) if stmt.strip()]
RECURSIVE SplitStatements(_, _)
SplitStatements(piece, text) ==
    IF text = <<>> THEN (IF piece = <<>> THEN <<>> ELSE <<piece>>)
    ELSE IF Head(text) \in Terminators
         THEN (IF piece = <<>> THEN <<>> ELSE <<piece>>) \o SplitStatements(<<>>, Tail(text))
         ELSE SplitStatements(Append(piece, Head(text)), Tail(text))

RECURSIVE JoinPieces(_)
JoinPieces(pieces) ==
    IF pieces = <<>> THEN "" ELSE Head(pieces) \o JoinPieces(Tail(pieces))

\* re.compile(r"\[([^\]]+\.md)\]").findall(statement), as a set: the text
\* between a "[" and a "]" that holds no "]" and ends in ".md".
Citations(statement) ==
    LET spans == {ik \in (DOMAIN statement) \X (DOMAIN statement) :
                    /\ ik[1] + 3 < ik[2]
                    /\ statement[ik[1]] = "["
                    /\ statement[ik[2]] = "]"
                    /\ statement[ik[2] - 1] = "md"
                    /\ statement[ik[2] - 2] = "."
                    /\ \A j \in (ik[1] + 1)..(ik[2] - 1) : statement[j] # "]"}
    IN  {JoinPieces(SubSeq(statement, ik[1] + 1, ik[2] - 1)) : ik \in spans}

\* _tokenize(result.answer)
AnswerTokens(answer) == UNION {_tokenize(answer[i]) : i \in DOMAIN answer}

QuestionTokens(question) ==
    IF question = "When does the reactor start?"
    THEN {"when", "does", "reactor", "start"}
    ELSE _tokenize(question)

SeqToSet(s) == {s[i] : i \in DOMAIN s}

_active_claims_for_files(file, files) ==
    SelectSeq(load_current_claims(file),
              LAMBDA c : c.status = "active" /\ c.file_path \in SeqToSet(files))

Score(claim, question, answer) ==
    LET claim_tokens == _tokenize(claim.claim_text) \cup _tokenize(claim.evidence_quote)
    IN  Cardinality(claim_tokens \cap QuestionTokens(question)) * 2
        + Cardinality(claim_tokens \cap AnswerTokens(answer))

MaxPerFile == 3

CountForFile_whole_trace(trace, file_path) == Len(trace)

CountForFile(trace, file_path) ==
    Cardinality({i \in DOMAIN trace : trace[i].file_path = file_path})

\* The greedy loop over the scored claims: at most MaxPerFile claims per
\* file and no claim_id twice.
RECURSIVE SelectTrace(_, _)
SelectTrace(trace, scored) ==
    IF scored = <<>> THEN trace
    ELSE LET claim == Head(scored)
             skip  == \/ CountForFile(trace, claim.file_path) >= MaxPerFile
                      \/ claim.claim_id \in Keys(trace)
         IN  SelectTrace(IF skip THEN trace ELSE Append(trace, claim), Tail(scored))

ClaimTrace(file, question, answer, sources) ==
    LET active_claims == _active_claims_for_files(file, sources)
        scored == SortDescending(
                      [i \in DOMAIN active_claims |->
                          [key  |-> Score(active_claims[i], question, answer),
                           item |-> active_claims[i]]])
    IN  SelectTrace(<<>>, Items(scored))

CitationEvents_first_only(trace, question, run_id) ==
    IF trace = <<>> THEN <<>>
    ELSE <<ClaimEvent("claim_cited_in_answer", run_id, trace[1].claim_id, <<>>,
                      trace[1].file_path, [kind |-> "question", text |-> question])>>

CitationEvents(trace, question, run_id) ==
    [i \in DOMAIN trace |->
        ClaimEvent("claim_cited_in_answer", run_id, trace[i].claim_id, <<>>,
                   trace[i].file_path, [kind |-> "question", text |-> question])]

\* Lines 603-609: a statement with citations is linked when one of them is
\* the file of a trace item, one without is linked when there is a trace.
IsLinked(statement, trace) ==
    LET matches == Citations(statement)
        linked_by_file == {trace[j].file_path : j \in DOMAIN trace}
    IN  IF matches # {}
        THEN matches \cap linked_by_file # {}
        ELSE trace # <<>>

LinkedStatements_per_item(answer, trace) ==
    Len(SplitStatements(<<>>, answer)) * Len(trace)

LinkedStatements(answer, trace) ==
    LET statements == SplitStatements(<<>>, answer)
    IN  Cardinality({i \in DOMAIN statements : IsLinked(statements[i], trace)})

\* round(linked_statements / total_statements, 4) in units of 0.0001, and 0
\* for an answer without statements.
CompletenessRatio(linked_statements, total_statements) ==
    IF total_statements > 0
    THEN (2 * 10000 * linked_statements + total_statements) \div (2 * total_statements)
    ELSE 0

----------------------------------------------------------------------------
(* Multi-brain orchestrator (orchestration.py): data and pure functions    *)

MaxNames == 2

\* Names a request can hold: two knowledge bases that exist, one of them
\* also with surrounding blanks, one that does not exist, and a blank name.
NameInputs == {"a", " a ", "b", "ghost", " "}

ExistingBrains == {"a", "b"}

\* name.strip()
Strip(name) ==
    CASE name = " a " -> "a"
      [] name \in {" ", "  "} -> ""
      [] OTHER -> name

\* list(dict.fromkeys(name.strip() for name in brain_names if name.strip()))
RECURSIVE Dedupe(_, _)
Dedupe(names, kept) ==
    IF names = <<>> THEN kept
    ELSE LET name == Strip(Head(names))
         IN  Dedupe(Tail(names),
                    IF name = "" \/ name \in SeqToSet(kept) THEN kept ELSE Append(kept, name))

Take(items, n) == SubSeq(items, 1, Min(Len(items), n))

\* A knowledge base on disk: its snapshot document and its event log.  The
\* claim ids of a knowledge base hash its name with the other parts.
NoBrain == [exists |-> FALSE, snap |-> NoFile, events |-> <<>>]

OfBrain(name, id) == <<name>> \o id

BrainOnDisk(name, ledger) ==
    [exists |-> TRUE,
     snap   |-> IF ledger.claims = <<>> THEN NoFile
                ELSE Written([i \in DOMAIN ledger.claims |->
                                [ledger.claims[i] EXCEPT !.claim_id = OfBrain(name, @)]]),
     events |-> [i \in DOMAIN ledger.events |->
                    [ledger.events[i] EXCEPT !.claim_id = OfBrain(name, @)]]]

\* claims_versioning_enabled(): ENABLE_CLAIM_VERSIONING is one of 1, true,
\* yes, on, in any case; not set means off.
claims_versioning_enabled(value) ==
    LET v == CASE value = "unset" -> "0"
               [] value = "TRUE" -> "true"
               [] OTHER -> value
    IN  v \in {"1", "true", "yes", "on"}

_brain_has_claim_metadata_any_toggle(brain, value) ==
    Len(list_claims(brain.snap, "", "", 1, 0)) > 0

\* Lines 83-87: the toggle is on and list_claims(limit=1) returns a claim.
_brain_has_claim_metadata(brain, value) ==
    IF ~claims_versioning_enabled(value) THEN FALSE
    ELSE Len(list_claims(brain.snap, "", "", 1, 0)) > 0

PerBrainResult(brain_name, answer_excerpt, confidence, sources, claim_trace, degraded, ratio) ==
    [brain_name |-> brain_name, answer_excerpt |-> answer_excerpt,
     confidence |-> confidence, sources |-> sources, claim_trace |-> claim_trace,
     trace_degraded |-> degraded,
     trace_completeness_ratio |-> ratio]

_InternalPerBrain(res, claim_trace_for_conflicts) ==
    [result |-> res, claim_trace_for_conflicts |-> claim_trace_for_conflicts]

NoRelevantFiles == <<"No relevant files found for this brain", ".">>

\* Lines 111-126: the entry for a knowledge base without selected files.
Placeholder(brain_name, has_claims) ==
    _InternalPerBrain(
        PerBrainResult(brain_name, NoRelevantFiles, "none", <<>>, <<>>, ~has_claims, 0), <<>>)

\* f"{brain.name}:{source}"
Prefixed(brain_name, sources) == [i \in DOMAIN sources |-> <<brain_name, sources[i]>>]

\* Lines 152-172: the entry for a knowledge base answered without a ledger.
Unaudited(brain_name, reply, selected_files) ==
    _InternalPerBrain(
        PerBrainResult(brain_name, reply.answer, reply.confidence,
                       Prefixed(brain_name,
                                IF reply.sources # <<>> THEN reply.sources ELSE selected_files),
                       <<>>, TRUE, 0), <<>>)

\* query.answer_from_brain_with_audit: the answer of the model, audited by
\* build_query_audit with the selected files as default sources.  Returns
\* the audit and the events it appends to the ledger of the knowledge base.
answer_from_brain_with_audit(brain, question, reply, selected_files, run_id) ==
    LET sources == IF reply.sources # <<>> THEN reply.sources ELSE selected_files
        trace   == ClaimTrace(brain.snap, question, reply.answer, sources)
        total   == Len(SplitStatements(<<>>, reply.answer))
        linked  == LinkedStatements(reply.answer, trace)
    IN  [answer |-> reply.answer, sources |-> sources, confidence |-> reply.confidence,
         claim_trace |-> trace,
         completeness_ratio |-> CompletenessRatio(linked, total),
         emitted |-> CitationEvents(trace, question, run_id)]

\* Lines 128-150: the entry for a knowledge base with a ledger.
Audited(brain_name, audit) ==
    _InternalPerBrain(
        PerBrainResult(brain_name, audit.answer, audit.confidence,
                       Prefixed(brain_name, audit.sources), audit.claim_trace,
                       FALSE, audit.completeness_ratio),
        audit.claim_trace)

\* claim_text.strip().lower(); the texts in use hold single blanks only,
\* for which this is _normalize_text.
StripLower(text) == _normalize_text(text)

TraceCap == 8
MaxPairsPerBrainCombo == 2
MinOverlap == 2

\* itertools.combinations(range(1, n + 1), 2), in its order.
RECURSIVE Combinations(_, _)
Combinations(i, n) ==
    IF i >= n THEN <<>>
    ELSE [j \in 1..(n - i) |-> <<i, i + j>>] \o Combinations(i + 1, n)

\* Lines 226-247 for one pair of knowledge bases: the scored pairs in loop
\* order, sorted by overlap (stable), the first two kept.
CandidatesOfPair(first, second) ==
    LET claims_a == Take(first.claim_trace_for_conflicts, TraceCap)
        claims_b == Take(second.claim_trace_for_conflicts, TraceCap)
        all == [k \in 1..(Len(claims_a) * Len(claims_b)) |->
                   LET claim_a == claims_a[((k - 1) \div Len(claims_b)) + 1]
                       claim_b == claims_b[((k - 1) % Len(claims_b)) + 1]
                   IN  [key  |-> Cardinality(_tokenize(claim_a.claim_text)
                                             \cap _tokenize(claim_b.claim_text)),
                        item |-> [claim_a |-> claim_a, claim_b |-> claim_b]]]
        scored == SelectSeq(all, LAMBDA e :
                      /\ e.item.claim_a.claim_id # e.item.claim_b.claim_id
                      /\ e.key >= MinOverlap
                      /\ StripLower(e.item.claim_a.claim_text)
                            # StripLower(e.item.claim_b.claim_text))
        kept == Take(Items(SortDescending(scored)), MaxPairsPerBrainCombo)
    IN  [idx \in DOMAIN kept |->
            [pair_id |-> <<first.result.brain_name, second.result.brain_name, idx>>,
             brain_a |-> first.result.brain_name,
             brain_b |-> second.result.brain_name,
             claim_a |-> kept[idx].claim_a,
             claim_b |-> kept[idx].claim_b]]

RECURSIVE CandidatesOfPairs(_, _)
CandidatesOfPairs(per_brain_internal, pairs) ==
    IF pairs = <<>> THEN <<>>
    ELSE CandidatesOfPair(per_brain_internal[Head(pairs)[1]],
                          per_brain_internal[Head(pairs)[2]])
         \o CandidatesOfPairs(per_brain_internal, Tail(pairs))

_build_conflict_candidates(per_brain_internal) ==
    CandidatesOfPairs(per_brain_internal, Combinations(1, Len(per_brain_internal)))

\* decision.classification.strip().lower(), and "ambiguous" for any label
\* other than support, refute, ambiguous.
NormalizedLabel(label) ==
    LET normalized == CASE label = " Refute " -> "refute"
                        [] OTHER -> label
    IN  IF normalized \in {"support", "refute", "ambiguous"} THEN normalized ELSE "ambiguous"

\* Lines 311-336: one ConflictItem per decision that names a candidate.
RECURSIVE ConflictItems(_, _)
ConflictItems(decisions, candidates) ==
    IF decisions = <<>> THEN <<>>
    ELSE LET decision == Head(decisions)
             hits == {i \in DOMAIN candidates : candidates[i].pair_id = decision.pair_id}
             rest == ConflictItems(Tail(decisions), candidates)
         IN  IF hits = {} THEN rest
             ELSE LET pair == candidates[CHOOSE i \in hits : TRUE]
                  IN  <<[topic |-> IF decision.topic # "" THEN decision.topic
                                   ELSE "Cross-brain claim comparison",
                         brains_involved |-> <<pair.brain_a, pair.brain_b>>,
                         classification |-> NormalizedLabel(decision.classification),
                         evidence |-> << <<pair.brain_a, pair.claim_a.claim_id>>,
                                         <<pair.brain_b, pair.claim_b.claim_id>> >>]>>
                      \o rest

\* The replies of the classification model: it fails, or it labels every
\* candidate it was given and one pair it was not given.
ClassifyReplies(candidates) ==
    { [raises |-> TRUE, items |-> <<>>],
      [raises |-> FALSE,
       items |-> [i \in DOMAIN candidates |->
                     [pair_id |-> candidates[i].pair_id, topic |-> "",
                      classification |-> IF i = 1 THEN " Refute " ELSE "unsure"]]
                 \o <<[pair_id |-> <<"a", "a", 9>>, topic |-> "x",
                       classification |-> "support"]>>] }

RECURSIVE SumRatios(_)
SumRatios(per_brain) ==
    IF per_brain = <<>> THEN 0
    ELSE Head(per_brain).trace_completeness_ratio + SumRatios(Tail(per_brain))

\* Lines 339-356; ratios are in units of 0.0001.
_summarize_traceability(per_brain) ==
    LET with_claims == SelectSeq(per_brain, LAMBDA item : ~item.trace_degraded)
        degraded == SelectSeq(per_brain, LAMBDA item : item.trace_degraded)
    IN  [brains_with_claims |-> Len(with_claims),
         brains_without_claims |-> Len(degraded),
         overall_completeness_ratio |->
             IF per_brain # <<>>
             THEN (2 * SumRatios(per_brain) + Len(per_brain)) \div (2 * Len(per_brain))
             ELSE 0,
         degraded_brains |-> [i \in DOMAIN degraded |-> degraded[i].brain_name]]

\* Lines 427-433: the sources of the entries, each once, in first-seen order.
RECURSIVE UniqueSources(_, _)
UniqueSources(sources, kept) ==
    IF sources = <<>> THEN kept
    ELSE UniqueSources(Tail(sources),
                       IF Head(sources) \in SeqToSet(kept) THEN kept
                       ELSE Append(kept, Head(sources)))

RECURSIVE AllSources(_)
AllSources(per_brain) ==
    IF per_brain = <<>> THEN <<>>
    ELSE Head(per_brain).sources \o AllSources(Tail(per_brain))

NoError == [kind |-> "none", message |-> "", missing |-> <<>>]

MultiBrainInputError(message) ==
    [kind |-> "MultiBrainInputError", message |-> message, missing |-> <<>>]

BrainNotFoundError(missing_brains) ==
    [kind |-> "BrainNotFoundError", message |-> "Brains not found", missing |-> missing_brains]

ModelError == [kind |-> "ModelError", message |-> "the model call failed", missing |-> <<>>]

NoSynthesis == [answer |-> <<>>, confidence |-> ""]

NoRequest ==
    [question |-> "", brain_names |-> <<>>, include_claim_trace |-> FALSE,
     include_conflicts |-> FALSE, max_brains |-> 0, max_files_per_brain |-> 0]

NoOrch ==
    [pc |-> "idle", brains |-> <<>>, warnings |-> <<>>, idx |-> 0,
     selected_files |-> <<>>, has_claims |-> FALSE, per_internal |-> <<>>,
     synthesis |-> NoSynthesis, conflicts |-> <<>>, candidates |-> <<>>,
     returned |-> FALSE, value |-> <<>>, error |-> NoError]

\* No multi-brain query is running and no knowledge base is looked at.
OrchIdle ==
    /\ brainsDir = [n \in {} |-> NoBrain]
    /\ versioning = "unset"
    /\ request = NoRequest
    /\ orch = NoOrch
    /\ modelCalls = <<>>

----------------------------------------------------------------------------
(* Processes                                                               *)

NoMessage == [kind |-> "", text |-> ""]

NoCall ==
    [op |-> "none", file_path |-> "", content |-> Content(<<>>, <<>>, ""),
     run_id |-> "", enforcement |-> "",
     question |-> "", answer |-> <<>>, sources |-> <<>>, default_sources |-> <<>>]

NoWork ==
    [base |-> <<>>, current |-> <<>>, created |-> 0, unchanged |-> 0,
     superseded |-> 0, warnings |-> <<>>, warning_count |-> 0, trace |-> <<>>,
     emitted |-> <<>>]

NoResult ==
    [outcome |-> "none", created |-> 0, unchanged |-> 0, superseded |-> 0,
     warnings |-> 0, message |-> NoMessage, claims |-> <<>>,
     total_statements |-> 0, linked_statements |-> 0, completeness_ratio |-> 0]

\* fcntl.flock(handle, LOCK_EX) returns only when no other open file
\* description holds the lock.
flock_available_shared(holder) == TRUE

flock_available(holder) == holder = NoProc

_lock_exit_without_finally(holder, raised) == IF raised THEN holder ELSE NoProc

\* Lines 210-213: the finally clause unlocks when the body returns and when
\* it raises.
_lock_exit(holder, raised) == NoProc

NoTracked == [file_path |-> "", content |-> Content(<<>>, <<>>, "")]

Init ==
    /\ env \in EnvValues
    /\ snapFile = NoFile
    /\ events = <<>>
    /\ lock = NoProc
    /\ calls = 0
    /\ clock = 0
    /\ pc = [p \in Procs |-> "idle"]
    /\ call = [p \in Procs |-> NoCall]
    /\ work = [p \in Procs |-> NoWork]
    /\ result = [p \in Procs |-> NoResult]
    /\ lastTracked = NoTracked
    /\ runs = <<>>
    /\ OrchIdle

(* track_file_claims *)

\* Line 398: the enforcement mode is read, then the call waits for the lock.
TrackBegin(p, file_path, content) ==
    /\ pc[p] = "idle"
    /\ calls < MaxCalls
    /\ calls' = calls + 1
    /\ call' = [call EXCEPT ![p] =
                   [NoCall EXCEPT !.op = "track_file_claims",
                                  !.file_path = file_path,
                                  !.content = content,
                                  !.run_id = p,
                                  !.enforcement = provenance_enforcement_mode(env)]]
    /\ work' = [work EXCEPT ![p] = NoWork]
    /\ result' = [result EXCEPT ![p] = NoResult]
    /\ pc' = [pc EXCEPT ![p] = "t_lock"]
    /\ UNCHANGED <<orchVars, runs, env, snapFile, events, lock, clock, lastTracked>>

EmitsWarnings_strict_only(enforcement) == enforcement = "strict"

EmitsWarnings(enforcement) == enforcement # "off"

\* Lines 465-474: one provenance_warning event per warning unless the
\* enforcement is off.
EmittedWarnings(p, warnings) ==
    IF EmitsWarnings(call[p].enforcement)
    THEN WarningEvents(warnings, call[p].run_id, call[p].file_path)
    ELSE <<>>

\* Lines 400-474: the lock is taken, the snapshot is loaded, the two loops
\* run and append their events, then the warning loop appends its events;
\* r is the state of the local variables after the two loops.
TrackReconcile(p) ==
    /\ pc[p] = "t_lock"
    /\ flock_available(lock)
    /\ lock' = p
    /\ clock' = clock + 1
    /\ \E r \in {Reconcile(load_current_claims(snapFile), call[p].file_path,
                            call[p].content, call[p].run_id, clock + 1)} :
          /\ events' = _append_jsonl(_append_jsonl(events, r.emitted),
                                     EmittedWarnings(p, r.warnings))
          /\ work' = [work EXCEPT ![p] =
                         [NoWork EXCEPT !.base = load_current_claims(snapFile),
                                        !.emitted = r.emitted \o EmittedWarnings(p, r.warnings),
                                        !.current = r.current,
                                        !.created = r.created,
                                        !.unchanged = r.unchanged,
                                        !.superseded = r.superseded,
                                        !.warnings = r.warnings,
                                        !.warning_count =
                                            Len(EmittedWarnings(p, r.warnings))]]
    /\ pc' = [pc EXCEPT ![p] = "t_save"]
    /\ UNCHANGED <<orchVars, runs, env, snapFile, calls, call, result, lastTracked>>

\* Line 476, first half: open(path, "w") empties the document.
TrackTruncate(p) ==
    /\ pc[p] = "t_save"
    /\ snapFile' = Truncated
    /\ pc' = [pc EXCEPT ![p] = "t_write"]
    /\ UNCHANGED <<orchVars, runs, env, events, lock, calls, clock, call, work, result, lastTracked>>

\* Line 476, second half: the whole text is in the document.
TrackWrite(p) ==
    /\ pc[p] = "t_write"
    /\ snapFile' = Written(work[p].current)
    /\ lastTracked' = [file_path |-> call[p].file_path, content |-> call[p].content]
    /\ pc' = [pc EXCEPT ![p] = "t_exit"]
    /\ UNCHANGED <<orchVars, runs, env, events, lock, calls, clock, call, work, result>>

Raises_on_count(warnings, enforcement) == Len(warnings) > 1 /\ enforcement = "strict"

Raises(warnings, enforcement) == warnings # <<>> /\ enforcement = "strict"

\* Lines 478-486 and the exit of the with block: raise or return, and the
\* lock is released either way.
TrackExit(p) ==
    /\ pc[p] = "t_exit"
    /\ lock' = _lock_exit(p, Raises(work[p].warnings, call[p].enforcement))
    /\ result' = [result EXCEPT ![p] =
                     IF Raises(work[p].warnings, call[p].enforcement)
                     THEN [NoResult EXCEPT !.outcome = "raised",
                                           !.message = work[p].warnings[1]]
                     ELSE [NoResult EXCEPT !.outcome = "returned",
                                           !.created = work[p].created,
                                           !.unchanged = work[p].unchanged,
                                           !.superseded = work[p].superseded,
                                           !.warnings = work[p].warning_count]]
    /\ pc' = [pc EXCEPT ![p] = "idle"]
    /\ call' = [call EXCEPT ![p] = NoCall]
    /\ work' = [work EXCEPT ![p] = NoWork]
    /\ UNCHANGED <<orchVars, runs, env, snapFile, events, calls, clock, lastTracked>>

(* build_query_audit *)

\* Lines 541-578: the active claims are read and the trace is selected.
AuditSelect(p, question, answer, sources, default_sources) ==
    /\ pc[p] = "idle"
    /\ calls < MaxCalls
    /\ calls' = calls + 1
    /\ call' = [call EXCEPT ![p] =
                   [NoCall EXCEPT !.op = "build_query_audit",
                                  !.run_id = p,
                                  !.question = question,
                                  !.answer = answer,
                                  !.sources = sources,
                                  !.default_sources = default_sources]]
    /\ LET effective == IF sources # <<>> THEN sources ELSE default_sources
       IN  work' = [work EXCEPT ![p] =
                      [NoWork EXCEPT !.trace = ClaimTrace(snapFile, question, answer,
                                                          effective)]]
    /\ result' = [result EXCEPT ![p] = NoResult]
    /\ pc' = [pc EXCEPT ![p] = "a_lock"]
    /\ UNCHANGED <<orchVars, runs, env, snapFile, events, lock, clock, lastTracked>>

\* Lines 580-629: under the lock one event per trace item is appended; the
\* statements are then counted and the result is returned.
AuditEmit(p) ==
    /\ pc[p] = "a_lock"
    /\ flock_available(lock)
    /\ events' = _append_jsonl(events,
                       CitationEvents(work[p].trace, call[p].question, call[p].run_id))
    /\ result' = [result EXCEPT ![p] =
                     [NoResult EXCEPT !.outcome = "returned",
                                      !.claims = work[p].trace,
                                      !.total_statements =
                                          Len(SplitStatements(<<>>, call[p].answer)),
                                      !.linked_statements =
                                          LinkedStatements(call[p].answer, work[p].trace),
                                      !.completeness_ratio =
                                          CompletenessRatio(
                                              LinkedStatements(call[p].answer, work[p].trace),
                                              Len(SplitStatements(<<>>, call[p].answer)))]]
    /\ pc' = [pc EXCEPT ![p] = "idle"]
    /\ call' = [call EXCEPT ![p] = NoCall]
    /\ work' = [work EXCEPT ![p] = NoWork]
    /\ UNCHANGED <<orchVars, runs, env, snapFile, lock, calls, clock, lastTracked>>

(* list_claims: one unlocked read of the document *)

ListClaims(p, status) ==
    /\ pc[p] = "idle"
    /\ calls < MaxCalls
    /\ calls' = calls + 1
    /\ result' = [result EXCEPT ![p] =
                     [NoResult EXCEPT !.outcome = "listed",
                                      !.claims = list_claims(snapFile, "", status,
                                                             DefaultLimit, 0)]]
    /\ UNCHANGED <<orchVars, runs, env, snapFile, events, lock, clock, pc, call, work, lastTracked>>

\* The inputs of the calls.
Question == "When does the reactor start?"

AuditInputs ==
    { [answer |-> <<>>, sources |-> <<>>],
      [answer |-> <<Q1, "[", "facts/a", ".", "md", "]", ".">>, sources |-> <<"facts/a.md">>] }

DefaultSources == <<"facts/a.md", "facts/b.md">>

Next ==
    \/ \E p \in Procs : \E i \in TrackInputs(p) : TrackBegin(p, i.file_path, i.content)
    \/ \E p \in Procs : TrackReconcile(p)
    \/ \E p \in Procs : TrackTruncate(p)
    \/ \E p \in Procs : TrackWrite(p)
    \/ \E p \in Procs : TrackExit(p)
    \/ \E p \in Queriers, i \in AuditInputs :
          AuditSelect(p, Question, i.answer, i.sources, DefaultSources)
    \/ \E p \in Procs : AuditEmit(p)
    \/ \E p \in Queriers : ListClaims(p, "")

Spec == Init /\ [][Next]_vars

----------------------------------------------------------------------------
(* The ledger with run records and failing reads and writes                *)

\* RunRecord as start_run and finish_run fill it: start_run leaves
\* finished_at unset and status at its default.
RunRecord(op, run_id, now) ==
    [run_id      |-> run_id,
     started_at  |-> now,
     finished_at |-> IF op = "finish_run" THEN now ELSE 0,
     status      |-> IF op = "finish_run" THEN "completed" ELSE "started"]

\* start_run lines 497-507, finish_run lines 513-521: the record is built
\* with the time of the call, then the call waits for the lock.
RunBegin(p, op) ==
    /\ pc[p] = "idle"
    /\ calls < MaxCalls
    /\ calls' = calls + 1
    /\ call' = [call EXCEPT ![p] = [NoCall EXCEPT !.op = op, !.run_id = p]]
    /\ work' = [work EXCEPT ![p] = [NoWork EXCEPT !.emitted = <<RunRecord(op, p, clock)>>]]
    /\ result' = [result EXCEPT ![p] = NoResult]
    /\ pc' = [pc EXCEPT ![p] = "r_lock"]
    /\ UNCHANGED <<orchVars, runs, env, snapFile, events, lock, clock, lastTracked>>

\* Lines 508-510 and 522-523: under the lock the record is appended to the
\* run log, and the call returns.
RunAppend(p) ==
    /\ pc[p] = "r_lock"
    /\ flock_available(lock)
    /\ runs' = _append_jsonl(runs, work[p].emitted)
    /\ result' = [result EXCEPT ![p] = [NoResult EXCEPT !.outcome = "returned"]]
    /\ pc' = [pc EXCEPT ![p] = "idle"]
    /\ call' = [call EXCEPT ![p] = NoCall]
    /\ work' = [work EXCEPT ![p] = NoWork]
    /\ UNCHANGED <<orchVars, env, snapFile, events, lock, calls, clock, lastTracked>>

\* The message of the error a failing read or write raises.
OSErrorMessage == [NoMessage EXCEPT !.text = "OSError"]

\* Lines 400-476 with an OSError: the read of line 401 fails right after
\* the lock is taken (the call is still waiting for it in the model), or
\* the write of line 476 fails before or after the document is emptied; the
\* error leaves the with block.
TrackFails(p) ==
    /\ \/ pc[p] = "t_lock" /\ flock_available(lock)
       \/ pc[p] \in {"t_save", "t_write"}
    /\ lock' = _lock_exit(p, TRUE)
    /\ result' = [result EXCEPT ![p] =
                     [NoResult EXCEPT !.outcome = "raised", !.message = OSErrorMessage]]
    /\ pc' = [pc EXCEPT ![p] = "idle"]
    /\ call' = [call EXCEPT ![p] = NoCall]
    /\ work' = [work EXCEPT ![p] = NoWork]
    /\ UNCHANGED <<orchVars, runs, env, snapFile, events, calls, clock, lastTracked>>

\* The (file, content) pairs a run writes: the first run rewrites one file
\* with and without warnings, the second run writes a second file.
LockInputs(p) ==
    IF p \in Queriers
    THEN {[file_path |-> "facts/b.md", content |-> ContentOne]}
    ELSE {[file_path |-> "facts/a.md", content |-> c] : c \in {ContentOne, ContentBare}}

NextLock ==
    \/ \E p \in Procs : \E i \in LockInputs(p) : TrackBegin(p, i.file_path, i.content)
    \/ \E p \in Procs : TrackReconcile(p)
    \/ \E p \in Procs : TrackTruncate(p)
    \/ \E p \in Procs : TrackWrite(p)
    \/ \E p \in Procs : TrackExit(p)
    \/ \E p \in Procs : TrackFails(p)
    \/ \E p \in Queriers, i \in AuditInputs :
          AuditSelect(p, Question, i.answer, i.sources, DefaultSources)
    \/ \E p \in Procs : AuditEmit(p)
    \/ \E p \in Queriers, op \in {"start_run", "finish_run"} : RunBegin(p, op)
    \/ \E p \in Procs : RunAppend(p)

\* Weak fairness of TrackReconcile(p), spelled out with the guard of the
\* action for its enabling condition: the step that takes a waiting
\* track_file_claims to its save is TrackReconcile.
Acquires(p) ==
    \/ []<>~(pc[p] = "t_lock" /\ flock_available(lock))
    \/ []<><<pc[p] = "t_lock" /\ pc'[p] = "t_save">>_vars

\* A running process takes its next step, and a call blocked in flock gets
\* the lock once it stays free; a read or a write need not fail.
LockFairness ==
    \A p \in Procs :
        /\ Acquires(p)
        /\ WF_vars(TrackTruncate(p))
        /\ WF_vars(TrackWrite(p))
        /\ WF_vars(TrackExit(p))
        /\ WF_vars(AuditEmit(p))
        /\ WF_vars(RunAppend(p))

LockSpec == Init /\ [][NextLock]_vars /\ LockFairness

----------------------------------------------------------------------------
(* Queries on a filled ledger                                              *)

\* The ledger after track_file_claims(file_path, content) has run to its end
\* on it (contents without provenance warnings).
AfterTrack(ledger, file_path, content, run_id, now) ==
    LET r == Reconcile(ledger.claims, file_path, content, run_id, now)
    IN  [claims |-> r.current, events |-> _append_jsonl(ledger.events, r.emitted)]

LedgerNew  == [claims |-> <<>>, events |-> <<>>]
LedgerFive == AfterTrack(AfterTrack(LedgerNew, "facts/a.md", ContentFive, "r1", 1),
                         "facts/b.md", ContentOne, "r1", 2)
LedgerFour == AfterTrack(LedgerFive, "facts/a.md", ContentFour, "r1", 3)
LedgerOne  == AfterTrack(LedgerFive, "facts/a.md", ContentOne, "r1", 3)

Ledgers == {LedgerNew, LedgerFive, LedgerFour, LedgerOne}

\* Answers of the model: none, only terminators, one sentence, one sentence
\* citing a file, and two sentences of which the first cites a file that
\* no ledger knows.
AnswerNone    == <<>>
AnswerBlank   == <<"\n", ".">>
AnswerPlain   == <<Q1, ".">>
AnswerCited   == <<Q1, "[", "facts/a", ".", "md", "]", ".">>
AnswerOutside == <<Q1, "[", "facts/zzz", ".", "md", "]", ".", S2, "!">>

AuditCases ==
    { [answer |-> AnswerNone,    sources |-> <<>>],
      [answer |-> AnswerBlank,   sources |-> <<"facts/a.md">>],
      [answer |-> AnswerPlain,   sources |-> <<>>],
      [answer |-> AnswerPlain,   sources |-> <<"facts/b.md">>],
      [answer |-> AnswerPlain,   sources |-> <<"facts/zzz.md">>],
      [answer |-> AnswerCited,   sources |-> <<"facts/a.md">>],
      [answer |-> AnswerCited,   sources |-> <<"facts/b.md">>],
      [answer |-> AnswerOutside, sources |-> <<"facts/a.md">>],
      [answer |-> AnswerOutside, sources |-> <<>>] }

InitAudit ==
    /\ env = "unset"
    /\ \E ledger \in Ledgers :
          /\ snapFile = IF ledger = LedgerNew THEN NoFile ELSE Written(ledger.claims)
          /\ events = ledger.events
    /\ lock = NoProc
    /\ calls = 0
    /\ clock = 3
    /\ pc = [p \in Procs |-> "idle"]
    /\ call = [p \in Procs |-> NoCall]
    /\ work = [p \in Procs |-> NoWork]
    /\ result = [p \in Procs |-> NoResult]
    /\ lastTracked = NoTracked
    /\ runs = <<>>
    /\ OrchIdle

NextAudit ==
    \/ \E p \in Queriers, i \in AuditCases :
          AuditSelect(p, Question, i.answer, i.sources, DefaultSources)
    \/ \E p \in Queriers : AuditEmit(p)

AuditSpec == InitAudit /\ [][NextAudit]_vars

----------------------------------------------------------------------------
(* orchestrate_multi_brain_query                                           *)

BrainAt(name) == IF name \in DOMAIN brainsDir THEN brainsDir[name] ELSE NoBrain

LedgerA == LedgerFive
LedgerB == AfterTrack(LedgerNew, "facts/a.md", Content(<<T6, T1>>, Quoted, "chapter_1"),
                      "r2", 1)

\* What is on disk: no ledger at all, a ledger in the first knowledge base
\* only, ledgers in both.
DiskInputs ==
    { [n \in ExistingBrains |-> BrainOnDisk(n, IF n = "a" THEN l[1] ELSE l[2])] :
        l \in {<<LedgerNew, LedgerNew>>, <<LedgerA, LedgerNew>>, <<LedgerA, LedgerB>>} }

VersioningValues == {"unset", "TRUE"}

NameLists == UNION {[1..n -> NameInputs] : n \in 0..MaxNames}

Requests ==
    [question : {"  ", Question},
     brain_names : NameLists,
     include_claim_trace : BOOLEAN,
     include_conflicts : BOOLEAN,
     max_brains : 0..MaxNames,
     max_files_per_brain : {0, 1}]

\* The replies of the language model to the three kinds of call of the
\* collect and synthesis stages; each call can also fail.
SelectReplies ==
    {[raises |-> TRUE, files |-> <<>>]}
    \cup {[raises |-> FALSE, files |-> f] :
            f \in {<<>>, <<"facts/a.md">>, <<"facts/a.md", "facts/b.md">>}}

AnswerReplies ==
    { [raises |-> TRUE, answer |-> <<>>, sources |-> <<>>, confidence |-> ""],
      [raises |-> FALSE, answer |-> AnswerPlain, sources |-> <<>>, confidence |-> "high"],
      [raises |-> FALSE, answer |-> AnswerOutside, sources |-> <<"facts/a.md">>,
       confidence |-> "low"] }

SynthesisReplies ==
    { [raises |-> TRUE, answer |-> <<>>, confidence |-> ""],
      [raises |-> FALSE, answer |-> <<"Both agree", ".">>, confidence |-> "medium"] }

InitOrch ==
    /\ env = "unset"
    /\ snapFile = NoFile
    /\ events = <<>>
    /\ lock = NoProc
    /\ calls = 0
    /\ clock = 0
    /\ pc = [p \in Procs |-> "idle"]
    /\ call = [p \in Procs |-> NoCall]
    /\ work = [p \in Procs |-> NoWork]
    /\ result = [p \in Procs |-> NoResult]
    /\ lastTracked = NoTracked
    /\ runs = <<>>
    /\ brainsDir \in DiskInputs
    /\ versioning \in VersioningValues
    /\ request \in Requests
    /\ orch = [NoOrch EXCEPT !.pc = "start"]
    /\ modelCalls = <<>>

ModelCall(kind, brain_name, raised) ==
    [kind |-> kind, brain |-> brain_name, raised |-> raised]

Warning(kind, subject, received, limit) ==
    [kind |-> kind, subject |-> subject, received |-> received, limit |-> limit]

CappedBrains_uncapped(deduped, max_brains) == deduped

\* Lines 386-390: deduped[:max_brains] when there are more names.
CappedBrains(deduped, max_brains) ==
    IF Len(deduped) > max_brains THEN Take(deduped, max_brains) ELSE deduped

InputError_limits_unchecked(req, deduped) ==
    IF Strip(req.question) = ""
    THEN MultiBrainInputError("Question is required.")
    ELSE IF req.brain_names = <<>>
    THEN MultiBrainInputError("At least one brain name is required.")
    ELSE IF deduped = <<>>
    THEN MultiBrainInputError("No valid brain names provided.")
    ELSE NoError

\* Lines 373-384: the four argument checks, in their order.
InputError(req, deduped) ==
    IF Strip(req.question) = ""
    THEN MultiBrainInputError("Question is required.")
    ELSE IF req.brain_names = <<>>
    THEN MultiBrainInputError("At least one brain name is required.")
    ELSE IF req.max_brains <= 0 \/ req.max_files_per_brain <= 0
    THEN MultiBrainInputError("max_brains and max_files_per_brain must be > 0.")
    ELSE IF deduped = <<>>
    THEN MultiBrainInputError("No valid brain names provided.")
    ELSE NoError

\* Lines 373-397: the argument checks, the cap and the existence check.
Validate ==
    /\ orch.pc = "start"
    /\ LET deduped == Dedupe(request.brain_names, <<>>)
           brains  == CappedBrains(deduped, request.max_brains)
           missing == SelectSeq(brains, LAMBDA n : ~BrainAt(n).exists)
           error ==
               IF InputError(request, deduped) # NoError
               THEN InputError(request, deduped)
               ELSE IF missing # <<>> THEN BrainNotFoundError(missing)
               ELSE NoError
       IN  orch' = IF error # NoError
                   THEN [orch EXCEPT !.pc = "failed", !.error = error]
                   ELSE [orch EXCEPT !.pc = "collect", !.brains = brains, !.idx = 1,
                                     !.warnings =
                                         IF Len(deduped) > request.max_brains
                                         THEN <<Warning("brains truncated", "",
                                                        Len(deduped), request.max_brains)>>
                                         ELSE <<>>]
    /\ UNCHANGED <<ledgerVars, brainsDir, versioning, request, modelCalls>>

\* The position after the entry of the current knowledge base is appended.
NextBrain_synthesis_first(o) ==
    [o EXCEPT !.idx = @ + 1, !.pc = "synth", !.selected_files = <<>>, !.has_claims = FALSE]

NextBrain(o) ==
    [o EXCEPT !.idx = @ + 1,
              !.pc = IF o.idx + 1 > Len(o.brains) THEN "synth" ELSE "collect",
              !.selected_files = <<>>,
              !.has_claims = FALSE]

\* Lines 100-126: the files are selected and cut to max_files_per_brain,
\* the ledger is looked at, and without files the placeholder is appended.
CollectSelect(reply) ==
    /\ orch.pc = "collect"
    /\ LET name == orch.brains[orch.idx]
           over == Len(reply.files) > request.max_files_per_brain
           selected_files == IF over THEN Take(reply.files, request.max_files_per_brain)
                             ELSE reply.files
           warnings == IF over
                       THEN Append(orch.warnings,
                                   Warning("files truncated", name, Len(reply.files),
                                           request.max_files_per_brain))
                       ELSE orch.warnings
           has_claims == _brain_has_claim_metadata(BrainAt(name), versioning)
       IN  /\ modelCalls' = Append(modelCalls, ModelCall("select", name, reply.raises))
           /\ orch' = IF reply.raises
                      THEN [orch EXCEPT !.pc = "failed", !.error = ModelError]
                      ELSE IF selected_files = <<>>
                      THEN NextBrain([orch EXCEPT !.warnings = warnings,
                                                  !.per_internal =
                                                      Append(@, Placeholder(name, has_claims))])
                      ELSE [orch EXCEPT !.pc = "answer",
                                        !.warnings = warnings,
                                        !.selected_files = selected_files,
                                        !.has_claims = has_claims]
    /\ UNCHANGED <<ledgerVars, brainsDir, versioning, request>>

\* Lines 128-172: the knowledge base is answered, with the audit when it has
\* a ledger; the audit appends its citation events to that ledger.
CollectAnswer(reply) ==
    /\ orch.pc = "answer"
    /\ LET name == orch.brains[orch.idx]
           audit == answer_from_brain_with_audit(BrainAt(name), request.question, reply,
                                                 orch.selected_files, "query")
       IN  /\ modelCalls' = Append(modelCalls, ModelCall("answer", name, reply.raises))
           /\ IF reply.raises
              THEN /\ orch' = [orch EXCEPT !.pc = "failed", !.error = ModelError]
                   /\ UNCHANGED brainsDir
              ELSE IF orch.has_claims
              THEN /\ orch' = NextBrain([orch EXCEPT !.per_internal =
                                                        Append(@, Audited(name, audit))])
                   /\ brainsDir' = [brainsDir EXCEPT ![name].events =
                                                        _append_jsonl(@, audit.emitted)]
              ELSE /\ orch' = NextBrain([orch EXCEPT !.per_internal =
                                            Append(@, Unaudited(name, reply,
                                                                orch.selected_files))])
                   /\ UNCHANGED brainsDir
    /\ UNCHANGED <<ledgerVars, versioning, request>>

\* Lines 406-412 and _synthesize_global_answer: one call of the model, whose
\* failure is the failure of the query.
Synthesize(reply) ==
    /\ orch.pc = "synth"
    /\ IF orch.per_internal = <<>>
       THEN /\ orch' = [orch EXCEPT !.pc = "classify",
                                    !.synthesis = [answer |-> <<"I couldn't find relevant information across the selected brains", ".">>,
                                                   confidence |-> "none"]]
            /\ UNCHANGED modelCalls
       ELSE /\ modelCalls' = Append(modelCalls, ModelCall("synthesize", "", reply.raises))
            /\ orch' = IF reply.raises
                       THEN [orch EXCEPT !.pc = "failed", !.error = ModelError]
                       ELSE [orch EXCEPT !.pc = "classify",
                                         !.synthesis = [answer |-> reply.answer,
                                                        confidence |-> reply.confidence]]
    /\ UNCHANGED <<ledgerVars, brainsDir, versioning, request>>

_classify_conflicts_propagating(reply, candidates) ==
    [failed |-> reply.raises, conflicts |-> ConflictItems(reply.items, candidates)]

\* Lines 301-336: the reply of the classification call; its failure is
\* caught and gives no conflicts.
_classify_conflicts(reply, candidates) ==
    [failed |-> FALSE,
     conflicts |-> IF reply.raises THEN <<>> ELSE ConflictItems(reply.items, candidates)]

\* Lines 414-420 and _classify_conflicts: at most one call of the model.
Classify(reply) ==
    /\ orch.pc = "classify"
    /\ LET candidates == _build_conflict_candidates(orch.per_internal)
           outcome == _classify_conflicts(reply, candidates)
       IN  IF ~request.include_conflicts \/ candidates = <<>>
           THEN /\ orch' = [orch EXCEPT !.pc = "aggregate", !.conflicts = <<>>,
                                        !.candidates =
                                            IF request.include_conflicts THEN candidates
                                            ELSE <<>>]
                /\ UNCHANGED modelCalls
           ELSE /\ modelCalls' = Append(modelCalls, ModelCall("classify", "", reply.raises))
                /\ orch' = IF outcome.failed
                           THEN [orch EXCEPT !.pc = "failed", !.error = ModelError,
                                             !.candidates = candidates]
                           ELSE [orch EXCEPT !.pc = "aggregate",
                                             !.conflicts = outcome.conflicts,
                                             !.candidates = candidates]
    /\ UNCHANGED <<ledgerVars, brainsDir, versioning, request>>

\* Lines 422-425: the entries as they are returned; a caller who opted out
\* of the traces gets them without trace and with a ratio of 0.0.
ReturnedPerBrain(per_internal, include_claim_trace) ==
    [i \in DOMAIN per_internal |->
        IF include_claim_trace THEN per_internal[i].result
        ELSE [per_internal[i].result EXCEPT
                  !.claim_trace = <<>>, !.trace_completeness_ratio = 0]]

\* Lines 427-446: MultiBrainQueryResult(...) from the returned entries.
MultiBrainQueryResult(synthesis, per_brain, conflicts, warnings) ==
    [answer |-> synthesis.answer,
     confidence |-> synthesis.confidence,
     per_brain |-> per_brain,
     conflicts |-> conflicts,
     sources |-> UniqueSources(AllSources(per_brain), <<>>),
     traceability |-> _summarize_traceability(per_brain),
     warnings |-> warnings]

\* Lines 422-446: the traces are dropped when the caller opted out, the
\* sources are collected, the traceability is summarised, the result is
\* returned.
Aggregate ==
    /\ orch.pc = "aggregate"
    /\ orch' = [orch EXCEPT
                   !.pc = "done",
                   !.returned = TRUE,
                   !.value = MultiBrainQueryResult(
                                 orch.synthesis,
                                 ReturnedPerBrain(orch.per_internal,
                                                  request.include_claim_trace),
                                 orch.conflicts, orch.warnings)]
    /\ UNCHANGED <<ledgerVars, brainsDir, versioning, request, modelCalls>>

NextOrch ==
    \/ Validate
    \/ \E reply \in SelectReplies : CollectSelect(reply)
    \/ \E reply \in AnswerReplies : CollectAnswer(reply)
    \/ \E reply \in SynthesisReplies : Synthesize(reply)
    \/ \E reply \in ClassifyReplies(_build_conflict_candidates(orch.per_internal)) :
          Classify(reply)
    \/ Aggregate

OrchSpec == InitOrch /\ [][NextOrch]_vars

----------------------------------------------------------------------------
(* Multi-brain queries over ledgers of several files                       *)

WideBrains == {"a", "b", "c"}

WideFiles == <<"facts/a.md", "facts/b.md", "facts/c.md">>

\* A ledger of three files with three claims each.
LedgerWide ==
    AfterTrack(
        AfterTrack(
            AfterTrack(LedgerNew, "facts/a.md", Content(<<T3, T5, T1>>, Quoted, "chapter_1"),
                       "r1", 1),
            "facts/b.md", Content(<<T3, T5, T4>>, Quoted, "chapter_1"), "r1", 2),
        "facts/c.md", Content(<<T3, T5, T2>>, Quoted, "chapter_1"), "r1", 3)

LedgerS  == AfterTrack(LedgerNew, "facts/a.md", Content(<<S2>>, Quoted, "chapter_1"), "r2", 1)
LedgerS6 == AfterTrack(LedgerNew, "facts/a.md", Content(<<T6, S2>>, Quoted, "chapter_1"),
                       "r2", 1)

WideDisks ==
    { [n \in WideBrains |->
          BrainOnDisk(n, CASE n = "a" -> l[1] [] n = "b" -> l[2] [] OTHER -> l[3])] :
        l \in {LedgerA, LedgerWide} \X {LedgerS, LedgerS6} \X {LedgerNew, LedgerB} }

WideRequests ==
    [question : {Question},
     brain_names : {<<"a", "b">>, <<"b", "a", "c">>, <<"a", "b", "c">>},
     include_claim_trace : BOOLEAN,
     include_conflicts : {TRUE},
     max_brains : {Cardinality(WideBrains)},
     max_files_per_brain : {Len(WideFiles)}]

WideSelectReplies ==
    {[raises |-> TRUE, files |-> <<>>]}
    \cup {[raises |-> FALSE, files |-> f] : f \in {<<>>, <<"facts/a.md">>, WideFiles}}

InitWide ==
    /\ env = "unset"
    /\ snapFile = NoFile
    /\ events = <<>>
    /\ lock = NoProc
    /\ calls = 0
    /\ clock = 0
    /\ pc = [p \in Procs |-> "idle"]
    /\ call = [p \in Procs |-> NoCall]
    /\ work = [p \in Procs |-> NoWork]
    /\ result = [p \in Procs |-> NoResult]
    /\ lastTracked = NoTracked
    /\ runs = <<>>
    /\ brainsDir \in WideDisks
    /\ versioning = "TRUE"
    /\ request \in WideRequests
    /\ orch = [NoOrch EXCEPT !.pc = "start"]
    /\ modelCalls = <<>>

NextWide ==
    \/ Validate
    \/ \E reply \in WideSelectReplies : CollectSelect(reply)
    \/ \E reply \in AnswerReplies : CollectAnswer(reply)
    \/ \E reply \in SynthesisReplies : Synthesize(reply)
    \/ \E reply \in ClassifyReplies(_build_conflict_candidates(orch.per_internal)) :
          Classify(reply)
    \/ Aggregate

WideSpec == InitWide /\ [][NextWide]_vars

----------------------------------------------------------------------------
(* Properties                                                              *)

Status(d, id) == IF Has(d, id) THEN Get(d, id).status ELSE "absent"

Snapshot == load_current_claims(snapFile)

\* The claims the call of p extracts from its content.
Extracted(p) ==
    _extract_claim_snapshots(call[p].file_path, call[p].content, call[p].run_id, 0).snapshots

NewIds(p) == {Extracted(p)[i].claim_id : i \in DOMAIN Extracted(p)}

Reconciled(p) == pc[p] \in {"t_save", "t_write", "t_exit"}

EventCount(log, event_type, claim_id) ==
    Cardinality({i \in DOMAIN log : /\ log[i].event_type = event_type
                                    /\ log[i].claim_id = claim_id})

LifecycleEvents(log) ==
    {i \in DOMAIN log : log[i].event_type \in {"claim_created", "claim_superseded"}}

IsPrefix(s, t) == Len(s) <= Len(t) /\ SubSeq(t, 1, Len(s)) = s

\* C1 (as stated): a claim the snapshot showed as superseded before a
\* track_file_claims call is not shown as active by the snapshot the call
\* saves.
C1_NeverReactivated ==
    \A p \in Procs :
        pc[p] = "t_exit" =>
            \A id \in Keys(work[p].base) :
                Status(work[p].base, id) = "superseded" => Status(Snapshot, id) # "active"

\* C2: a track_file_claims call that follows, without another save in
\* between, a call with the same file_path and content creates and
\* supersedes nothing, appends no claim_created or claim_superseded event
\* and leaves the claim ids of the snapshot and their statuses as they were.
C2_Idempotent ==
    \A p \in Procs :
        ( /\ pc[p] \in {"t_save", "t_write"}
          /\ lastTracked = [file_path |-> call[p].file_path, content |-> call[p].content] )
        => /\ work[p].created = 0
           /\ work[p].superseded = 0
           /\ LifecycleEvents(work[p].emitted) = {}
           /\ Keys(work[p].current) = Keys(work[p].base)
           /\ \A id \in Keys(work[p].base) :
                 Status(work[p].current, id) = Status(work[p].base, id)

C2_Witness ==
    \E p \in Procs :
        /\ pc[p] = "t_save"
        /\ lastTracked = [file_path |-> call[p].file_path, content |-> call[p].content]
        /\ work[p].unchanged > 0

\* C3: when a track_file_claims(F, content) call has saved the snapshot,
\* the claims it turned to superseded are exactly those that were active
\* for F and are absent from the new extraction, each with exactly one
\* claim_superseded event of the call; no other claim gets a
\* claim_superseded event; the claims that stay are counted unchanged and
\* get no event, the new ones are counted created and get exactly one
\* claim_created event.
C3_Supersession ==
    \A p \in Procs :
        pc[p] = "t_exit" =>
            LET base  == work[p].base
                cur   == Snapshot
                new   == NewIds(p)
                was   == {id \in Keys(base) : /\ Get(base, id).file_path = call[p].file_path
                                              /\ Get(base, id).status = "active"}
                gone  == was \ new
                stays == was \cap new
                fresh == new \ was
            IN  /\ \A id \in Keys(base) \cup Keys(cur) :
                      /\ (Status(cur, id) = "superseded" /\ Status(base, id) # "superseded")
                            <=> id \in gone
                      /\ EventCount(work[p].emitted, "claim_superseded", id)
                            = IF id \in gone THEN 1 ELSE 0
                      /\ EventCount(work[p].emitted, "claim_created", id)
                            = IF id \in fresh THEN 1 ELSE 0
                /\ \A id \in new : Status(cur, id) = "active"
                /\ work[p].superseded = Cardinality(gone)
                /\ work[p].created = Cardinality(fresh)
                /\ work[p].unchanged >= Cardinality(stays)
                /\ work[p].unchanged = Len(Extracted(p)) - work[p].created

C3_Witness ==
    \E p \in Procs :
        /\ pc[p] = "t_exit"
        /\ work[p].superseded >= 1
        /\ work[p].unchanged >= 1
        /\ \E id \in Keys(work[p].base) : Status(work[p].base, id) = "superseded"

\* C4: every step leaves the records of the event log in place and in
\* order, and only adds records after them.
C4_AppendOnly == [][IsPrefix(events, events')]_vars

C4_Witness ==
    \E p \in Procs :
        /\ pc[p] = "t_exit"
        /\ work[p].base # <<>>
        /\ work[p].emitted # <<>>
        /\ Len(events) > Len(work[p].emitted)

\* C5: in strict mode a track_file_claims call with at least one warning
\* raises with the first warning; when it raises the snapshot on disk is
\* the one the call computed, and if a claim was extracted without an
\* evidence quote the message is a "Missing direct quote" one and
\* list_claims returns that claim as active.
C5_WriteBeforeRaise ==
    [][ \A p \in Procs :
          ( /\ pc[p] = "t_exit"
            /\ pc'[p] = "idle"
            /\ call[p].enforcement = "strict"
            /\ work[p].warnings # <<>> )
          => /\ result'[p].outcome = "raised"
             /\ result'[p].message = work[p].warnings[1]
             /\ snapFile' = Written(work[p].current)
             /\ \A i \in DOMAIN Extracted(p) :
                   Extracted(p)[i].evidence_quote = ""
                   => /\ result'[p].message.kind = "Missing direct quote for claim"
                      /\ \E j \in DOMAIN list_claims(snapFile', "", "active", DefaultLimit, 0) :
                            list_claims(snapFile', "", "active", DefaultLimit, 0)[j].claim_id
                               = Extracted(p)[i].claim_id
      ]_vars

C5_Witness ==
    \E p \in Procs :
        /\ result[p].outcome = "raised"
        /\ result[p].message.kind = "Missing direct quote for claim"
        /\ \E i \in DOMAIN Snapshot :
              Snapshot[i].evidence_quote = "" /\ Snapshot[i].status = "active"

\* The complete snapshots around the current state: the one on disk, or,
\* while a call is replacing the document, the one it loaded and the one it
\* is writing.
CompleteSnapshots ==
    IF \E q \in Procs : pc[q] = "t_write"
    THEN UNION {{work[q].base, work[q].current} : q \in {r \in Procs : pc[r] = "t_write"}}
    ELSE {Snapshot}

\* C6 (as stated): a list_claims call returns the claims of a complete
\* snapshot, the one before or the one after a concurrent write.
C6_AtomicRead ==
    [][ \A p \in Procs :
          ( /\ pc' = pc
            /\ calls' = calls + 1
            /\ result'[p].outcome = "listed" )
          => \E complete \in CompleteSnapshots :
                result'[p].claims = list_claims(Written(complete), "", "", DefaultLimit, 0)
      ]_vars

\* C7 (as stated): a claim_cited_in_answer event is appended only for a
\* claim that is active in the snapshot at that moment, the read of the
\* active claims and the appends being one critical section.
C7_CitesOnlyActive ==
    [][ \A i \in (Len(events) + 1)..Len(events') :
          events'[i].event_type = "claim_cited_in_answer"
          => Status(Snapshot, events'[i].claim_id) = "active"
      ]_vars

CreatedIds == {events[i].claim_id : i \in {j \in DOMAIN events :
                                               events[j].event_type = "claim_created"}}

\* C8: at most one track_file_claims call is between loading and saving
\* the snapshot; a call that is about to save loaded the snapshot that is
\* on disk, a call that has saved finds on disk what it wrote, and once the
\* calls are through the snapshot holds the claims every one of them
\* created.
C8_Serialized ==
    /\ \A p, q \in Procs : (Reconciled(p) /\ Reconciled(q)) => p = q
    /\ \A p \in Procs : pc[p] = "t_save" => Snapshot = work[p].base
    /\ \A p \in Procs : pc[p] = "t_exit" => snapFile = Written(work[p].current)
    /\ (\A p \in Procs : pc[p] \notin {"t_save", "t_write"}) => CreatedIds \subseteq Keys(Snapshot)

C8_Witness ==
    /\ pc["r1"] = "t_exit"
    /\ pc["r2"] = "t_lock"
    /\ call["r1"].file_path # call["r2"].file_path
    /\ work["r1"].base # <<>>
    /\ work["r1"].created >= 1

\* C9: a track_file_claims call keeps every claim id of the snapshot it
\* loaded, the snapshot never holds two entries with one claim id and never
\* an entry with status deleted, and between calls every claim id that was
\* ever created is in the snapshot.
C9_NeverDeleted ==
    /\ \A p \in Procs : pc[p] = "t_save" => Keys(work[p].base) \subseteq Keys(work[p].current)
    /\ \A i, j \in DOMAIN Snapshot : Snapshot[i].claim_id = Snapshot[j].claim_id => i = j
    /\ \A i \in DOMAIN Snapshot : Snapshot[i].status \in {"active", "superseded"}
    /\ (\A p \in Procs : pc[p] = "idle") => CreatedIds \subseteq Keys(Snapshot)

C9_Witness ==
    /\ \A p \in Procs : pc[p] = "idle"
    /\ calls = MaxCalls
    /\ \E i \in DOMAIN Snapshot : Snapshot[i].status = "superseded"
    /\ \E i \in DOMAIN Snapshot : Snapshot[i].status = "active"

IsViolation(warning) ==
    warning.kind \in {"Missing direct quote for claim", "Missing source locator for claim"}

WarningEventsOfCall(p) ==
    SelectSeq(work[p].emitted, LAMBDA e : e.event_type = "provenance_warning")

\* C10 (as stated): whatever the enforcement mode, every provenance
\* violation a track_file_claims call found is in the event log as a
\* provenance_warning event of that call.
C10_AlwaysRecorded ==
    \A p \in Procs :
        pc[p] = "t_save" =>
            \A i \in DOMAIN work[p].warnings :
                IsViolation(work[p].warnings[i])
                => \E j \in DOMAIN events :
                      /\ events[j].event_type = "provenance_warning"
                      /\ events[j].run_id = call[p].run_id
                      /\ events[j].file_path = call[p].file_path
                      /\ events[j].payload = work[p].warnings[i]

\* C10 (amended): unless the enforcement mode is off, a track_file_claims
\* call appends one provenance_warning event per warning it found, in
\* order; in mode off it appends none; and a call raises only in strict
\* mode.
C10_RecordedUnlessOff ==
    /\ \A p \in Procs :
          pc[p] = "t_save" =>
              IF call[p].enforcement = "off"
              THEN WarningEventsOfCall(p) = <<>>
              ELSE /\ WarningEventsOfCall(p)
                        = WarningEvents(work[p].warnings, call[p].run_id, call[p].file_path)
                   /\ \E k \in 0..Len(events) :
                         SubSeq(events, k + 1, k + Len(work[p].emitted)) = work[p].emitted
    /\ \A p \in Procs :
          result[p].outcome = "raised" => provenance_enforcement_mode(env) = "strict"

C10_Witness ==
    \E p \in Procs :
        /\ pc[p] = "t_save"
        /\ call[p].enforcement = "warn"
        /\ \E i \in DOMAIN work[p].warnings :
              work[p].warnings[i].kind = "Missing direct quote for claim"
        /\ \E i \in DOMAIN work[p].warnings :
              work[p].warnings[i].kind = "Missing source locator for claim"

----------------------------------------------------------------------------
(* Properties of build_query_audit                                         *)

\* The sentences of an answer: its pieces between terminators, where a
\* terminator inside a bracketed citation ends nothing.
RECURSIVE SplitSentences(_, _, _)
SplitSentences(piece, text, inside) ==
    IF text = <<>> THEN (IF piece = <<>> THEN <<>> ELSE <<piece>>)
    ELSE LET h == Head(text)
         IN  IF h \in Terminators /\ ~inside
             THEN (IF piece = <<>> THEN <<>> ELSE <<piece>>)
                  \o SplitSentences(<<>>, Tail(text), FALSE)
             ELSE SplitSentences(Append(piece, h), Tail(text),
                                 IF h = "[" THEN TRUE ELSE IF h = "]" THEN FALSE ELSE inside)

TraceFiles(trace) == {trace[j].file_path : j \in DOMAIN trace}

AuditReturns(p) == pc[p] = "a_lock" /\ pc'[p] = "idle"

\* C11: build_query_audit counts a statement of the answer as linked exactly
\* when it cites a file "[<path>.md]" and one of the cited paths is the
\* file of a trace item, or it cites no file and the trace is not empty; a
\* statement whose citations all name files outside the trace is not
\* counted.
C11_LinkedByCitation ==
    [][\A p \in Procs :
          AuditReturns(p) =>
              LET sentences == SplitSentences(<<>>, call[p].answer, FALSE)
                  linked == {i \in DOMAIN sentences :
                               LET cited == Citations(sentences[i])
                               IN  \/ cited \cap TraceFiles(work[p].trace) # {}
                                   \/ cited = {} /\ work[p].trace # <<>>}
              IN  result'[p].linked_statements = Cardinality(linked)]_vars

\* C12: for every question, answer and ledger, build_query_audit returns
\* 0 <= linked_statements <= total_statements and a completeness_ratio in
\* [0, 1]; an answer without statements gives total_statements = 0 and
\* completeness_ratio = 0.
C12_RatioBounds ==
    [][\A p \in Procs :
          AuditReturns(p) =>
              LET r == result'[p]
              IN  /\ 0 <= r.linked_statements
                  /\ r.linked_statements <= r.total_statements
                  /\ 0 <= r.completeness_ratio
                  /\ r.completeness_ratio <= 10000
                  /\ r.total_statements = Len(SplitStatements(<<>>, call[p].answer))
                  /\ (\A i \in DOMAIN call[p].answer : call[p].answer[i] \in Terminators)
                        => r.total_statements = 0 /\ r.completeness_ratio = 0]_vars

C12_Witness ==
    \E p \in Procs :
        /\ result[p].outcome = "returned"
        /\ result[p].total_statements >= 2
        /\ result[p].linked_statements >= 1
        /\ result[p].completeness_ratio = 10000

EffectiveSources(p) ==
    SeqToSet(IF call[p].sources # <<>> THEN call[p].sources ELSE call[p].default_sources)

ActiveIn(file_path) ==
    {c \in SeqToSet(Snapshot) : c.status = "active" /\ c.file_path = file_path}

\* C13: the claim_trace of build_query_audit holds no claim_id twice, holds
\* only active claims whose file is in the effective source set (the
\* answer's sources, or default_sources when it declares none), and for
\* each file holds exactly min(3, n) of that file's n active claims, none of
\* them scoring less than one left out, where score = 2 x (tokens shared
\* with the question) + (tokens shared with the answer).
C13_TraceSelection ==
    \A p \in Procs :
        pc[p] = "a_lock" =>
            LET trace == work[p].trace
                ScoreOf(c) == Score(c, call[p].question, call[p].answer)
            IN  /\ \A i, j \in DOMAIN trace :
                      trace[i].claim_id = trace[j].claim_id => i = j
                /\ \A i \in DOMAIN trace :
                      /\ trace[i].file_path \in EffectiveSources(p)
                      /\ trace[i] \in ActiveIn(trace[i].file_path)
                /\ \A f \in EffectiveSources(p) :
                      LET chosen == {c \in SeqToSet(trace) : c.file_path = f}
                      IN  /\ Cardinality(chosen) = Min(3, Cardinality(ActiveIn(f)))
                          /\ \A c \in chosen : \A u \in ActiveIn(f) \ chosen :
                                ScoreOf(c) >= ScoreOf(u)

C13_Witness ==
    \E p \in Procs :
        /\ pc[p] = "a_lock"
        /\ call[p].sources = <<>>
        /\ Cardinality(ActiveIn("facts/a.md")) > 3
        /\ Cardinality(ActiveIn("facts/b.md")) = 1
        /\ Len(work[p].trace) = 4
        /\ \E c \in SeqToSet(Snapshot) : c.status = "superseded"
        /\ \E c, u \in ActiveIn("facts/a.md") :
              /\ c \in SeqToSet(work[p].trace)
              /\ u \notin SeqToSet(work[p].trace)
              /\ Score(c, call[p].question, call[p].answer)
                    = Score(u, call[p].question, call[p].answer)

\* C14: build_query_audit appends exactly one claim_cited_in_answer event for
\* each item of the claim_trace it returns, with the item's claim_id and
\* file_path and the query's run_id, appends no other event, and leaves the
\* snapshot as it is.
C14_OneEventPerItem ==
    [][\A p \in Procs :
          /\ (pc[p] = "idle" /\ pc'[p] = "a_lock") =>
                events' = events /\ snapFile' = snapFile
          /\ AuditReturns(p) =>
                LET trace == result'[p].claims
                    n == Len(events)
                IN  /\ snapFile' = snapFile
                    /\ IsPrefix(events, events')
                    /\ Len(events') = n + Len(trace)
                    /\ \A i \in DOMAIN trace :
                          /\ events'[n + i].event_type = "claim_cited_in_answer"
                          /\ events'[n + i].claim_id = trace[i].claim_id
                          /\ events'[n + i].file_path = trace[i].file_path
                          /\ events'[n + i].run_id = call[p].run_id]_vars

C14_Witness ==
    \E p \in Procs :
        /\ result[p].outcome = "returned"
        /\ Len(result[p].claims) >= 2
        /\ Len(events) >= 2
        /\ events[Len(events)].event_type = "claim_cited_in_answer"
        /\ events[Len(events)].claim_id = result[p].claims[Len(result[p].claims)].claim_id
        /\ snapFile.state = "full"

----------------------------------------------------------------------------
(* Properties of orchestrate_multi_brain_query                             *)

Requested == Dedupe(request.brain_names, <<>>)

ValidArguments ==
    /\ Strip(request.question) # ""
    /\ request.max_brains > 0
    /\ request.max_files_per_brain > 0
    /\ Requested # <<>>

Calls(kind) == {i \in DOMAIN modelCalls : modelCalls[i].kind = kind}

HoldsNoClaims(name) == load_current_claims(BrainAt(name).snap) = <<>>

\* C15: when a requested source name does not exist, the query fails with
\* the not-found error, the error lists every requested name that does not
\* exist, whatever the request list and max_brains, and no per-source query
\* is run.
C15_MissingNamesReported ==
    LET missing == {n \in SeqToSet(Requested) : ~BrainAt(n).exists}
    IN  (orch.pc # "start" /\ ValidArguments /\ missing # {}) =>
            /\ orch.pc = "failed"
            /\ orch.error.kind = "BrainNotFoundError"
            /\ SeqToSet(orch.error.missing) = missing
            /\ modelCalls = <<>>

\* C16: a returned result has one per_brain entry for each of the first
\* max_brains names of the trimmed, de-duplicated request list, in request
\* order; its warnings mention the truncation exactly when that list has
\* more than max_brains names.
C16_SourceCap ==
    orch.returned =>
        LET per_brain == orch.value.per_brain
            truncated == {i \in DOMAIN orch.value.warnings :
                             orch.value.warnings[i].kind = "brains truncated"}
        IN  /\ [i \in DOMAIN per_brain |-> per_brain[i].brain_name]
                  = Take(Requested, request.max_brains)
            /\ Len(Requested) > request.max_brains =>
                  /\ Len(per_brain) = request.max_brains
                  /\ truncated # {}
            /\ Len(Requested) <= request.max_brains =>
                  /\ Len(per_brain) = Len(Requested)
                  /\ truncated = {}

C16_Witness ==
    /\ orch.returned
    /\ request.brain_names = <<" a ", "b">>
    /\ Len(Requested) > request.max_brains
    /\ Len(orch.value.per_brain) = request.max_brains
    /\ orch.value.per_brain[1].brain_name = "a"

\* C17: when the file selection returns no files for a source, its entry is
\* the "no relevant files" placeholder with confidence none, no sources, no
\* claim trace and trace_degraded = true, with or without a claim ledger.
C17_PlaceholderDegraded ==
    [][(orch.pc = "collect" /\ Len(orch'.per_internal) = Len(orch.per_internal) + 1) =>
          LET entry == orch'.per_internal[Len(orch'.per_internal)].result
          IN  /\ entry.brain_name = orch.brains[orch.idx]
              /\ entry.answer_excerpt = NoRelevantFiles
              /\ entry.confidence = "none"
              /\ entry.sources = <<>>
              /\ entry.claim_trace = <<>>
              /\ entry.trace_degraded]_vars

\* C18: every processed source whose ledger holds no claims, and every
\* processed source when the ledger toggle is off, has trace_degraded =
\* true, an empty claim_trace and trace_completeness_ratio = 0, whatever the
\* confidence of its answer, and is listed in traceability.degraded_brains.
C18_DegradedSources ==
    /\ \A i \in DOMAIN orch.per_internal :
          LET entry == orch.per_internal[i].result
          IN  (HoldsNoClaims(entry.brain_name) \/ ~claims_versioning_enabled(versioning)) =>
                  /\ entry.trace_degraded
                  /\ entry.claim_trace = <<>>
                  /\ entry.trace_completeness_ratio = 0
                  /\ orch.per_internal[i].claim_trace_for_conflicts = <<>>
    /\ orch.returned =>
          \A i \in DOMAIN orch.value.per_brain :
              LET entry == orch.value.per_brain[i]
              IN  (HoldsNoClaims(entry.brain_name) \/ ~claims_versioning_enabled(versioning)) =>
                      /\ entry.trace_degraded
                      /\ entry.claim_trace = <<>>
                      /\ entry.trace_completeness_ratio = 0
                      /\ entry.brain_name \in SeqToSet(orch.value.traceability.degraded_brains)

C18_Witness ==
    /\ orch.returned
    /\ request.include_claim_trace
    /\ ~claims_versioning_enabled(versioning)
    /\ \E i \in DOMAIN orch.value.per_brain :
          /\ ~HoldsNoClaims(orch.value.per_brain[i].brain_name)
          /\ orch.value.per_brain[i].confidence = "high"
          /\ orch.value.per_brain[i].trace_degraded
    /\ \E i \in DOMAIN orch.value.per_brain :
          HoldsNoClaims(orch.value.per_brain[i].brain_name)

ClassifyRaised == \E i \in Calls("classify") : modelCalls[i].raised

\* C19: when the classification call raises, the query still returns a
\* result, with no conflicts and with the answer, per_brain entries, sources
\* and warnings of the stages before: the step of the failed call changes
\* nothing but the (empty) conflict list, as the step without a call does.
C19_ClassificationFailsSoft ==
    [][/\ (orch.pc = "classify" /\ ClassifyRaised') =>
             /\ orch'.pc = "aggregate"
             /\ orch'.conflicts = <<>>
             /\ orch' = [orch EXCEPT !.pc = "aggregate", !.conflicts = <<>>,
                                     !.candidates = orch'.candidates]
             /\ brainsDir' = brainsDir
       /\ (orch.pc = "classify" /\ ~request.include_conflicts) =>
             /\ orch' = [orch EXCEPT !.pc = "aggregate", !.conflicts = <<>>]
             /\ UNCHANGED <<brainsDir, modelCalls>>
       /\ (orch.pc = "aggregate" /\ (ClassifyRaised \/ ~request.include_conflicts)) =>
             /\ orch'.returned
             /\ orch'.value.conflicts = <<>>
             /\ orch'.value.answer = orch.synthesis.answer
             /\ orch'.value.warnings = orch.warnings
             /\ Len(orch'.value.per_brain) = Len(orch.per_internal)
             /\ \A i \in DOMAIN orch.per_internal :
                   LET entry == orch.per_internal[i].result
                       out == orch'.value.per_brain[i]
                   IN  /\ out.brain_name = entry.brain_name
                       /\ out.answer_excerpt = entry.answer_excerpt
                       /\ out.confidence = entry.confidence
                       /\ out.sources = entry.sources
                       /\ out.trace_degraded = entry.trace_degraded
                       /\ request.include_claim_trace => out = entry
             /\ \A i \in DOMAIN orch.per_internal :
                   SeqToSet(orch.per_internal[i].result.sources)
                       \subseteq SeqToSet(orch'.value.sources)]_vars

C19_Witness ==
    /\ orch.returned
    /\ ClassifyRaised
    /\ orch.candidates # <<>>
    /\ orch.value.conflicts = <<>>
    /\ Len(orch.value.per_brain) = 2

Stage(kind) == CASE kind \in {"select", "answer"} -> 1
                 [] kind = "synthesize" -> 2
                 [] kind = "classify" -> 3

Position(name) == CHOOSE i \in DOMAIN orch.brains : orch.brains[i] = name

\* C20: one query calls the model for every processed source in request
\* order (select, then answer), then synthesises exactly once, then
\* classifies at most once (never when include_conflicts is false or there
\* is no candidate pair), and returns only after that; no stage starts
\* before the one before it has finished; when the synthesis fails the error
\* is surfaced without a second attempt, nothing is classified and nothing
\* is returned.
C20_StageOrder ==
    /\ \A i, j \in DOMAIN modelCalls :
          i < j =>
              /\ Stage(modelCalls[i].kind) <= Stage(modelCalls[j].kind)
              /\ ~modelCalls[i].raised \/ modelCalls[i].kind = "classify"
              /\ Stage(modelCalls[j].kind) = 1 =>
                    \/ Position(modelCalls[i].brain) < Position(modelCalls[j].brain)
                    \/ /\ modelCalls[i].brain = modelCalls[j].brain
                       /\ modelCalls[i].kind = "select"
                       /\ modelCalls[j].kind = "answer"
                       /\ j = i + 1
    /\ Cardinality(Calls("synthesize")) <= 1
    /\ Cardinality(Calls("classify")) <= 1
    /\ Calls("synthesize") # {} =>
          \A n \in SeqToSet(orch.brains) :
              \E i \in Calls("select") : modelCalls[i].brain = n /\ ~modelCalls[i].raised
    /\ Calls("classify") # {} =>
          /\ request.include_conflicts
          /\ _build_conflict_candidates(orch.per_internal) # <<>>
          /\ \E i \in Calls("synthesize") : ~modelCalls[i].raised
    /\ orch.pc \in {"classify", "aggregate", "done"} =>
          /\ Cardinality(Calls("synthesize")) = 1
          /\ Len(orch.per_internal) = Len(orch.brains)
    /\ orch.pc \in {"aggregate", "done"} =>
          (Cardinality(Calls("classify")) = 1
              <=> (request.include_conflicts
                   /\ _build_conflict_candidates(orch.per_internal) # <<>>))
    /\ orch.returned <=> orch.pc = "done"
    /\ (\E i \in Calls("synthesize") : modelCalls[i].raised) =>
          /\ orch.pc = "failed"
          /\ orch.error = ModelError
          /\ Calls("classify") = {}
          /\ ~orch.returned

C20_Witness ==
    /\ orch.returned
    /\ Len(orch.brains) = 2
    /\ Cardinality(Calls("answer")) = 2
    /\ Cardinality(Calls("classify")) = 1
    /\ orch.value.conflicts # <<>>

----------------------------------------------------------------------------
(* Conflict candidates                                                     *)

\* The entries of the processed sources and what was traced for each.
Entries == orch.per_internal

NameOf(m) == Entries[m].result.brain_name

TracedOf(m) == SeqToSet(Entries[m].claim_trace_for_conflicts)

SharedTokens(x, y) == Cardinality(_tokenize(x.claim_text) \cap _tokenize(y.claim_text))

Qualifies(x, y) ==
    /\ SharedTokens(x, y) >= 2
    /\ StripLower(x.claim_text) # StripLower(y.claim_text)

\* The candidates built for the entries m and n.
CandidatesFor(m, n) ==
    {i \in DOMAIN orch.candidates :
        {orch.candidates[i].brain_a, orch.candidates[i].brain_b} = {NameOf(m), NameOf(n)}}

Kept(m, n, x, y) ==
    \E i \in CandidatesFor(m, n) :
        {orch.candidates[i].claim_a, orch.candidates[i].claim_b} = {x, y}

CandidatesBuilt == orch.pc \in {"aggregate", "done"} /\ request.include_conflicts

\* C21 (as stated): every candidate pairs a traced claim of one processed
\* source with a traced claim of another, the two texts share at least 2
\* tokens and differ ignoring case and surrounding blanks; a pair of sources
\* has at most 2 candidates, and no qualifying pair of traced claims that
\* was left out has a strictly higher overlap than a pair that was kept.
C21_SoundAndCapped ==
    CandidatesBuilt =>
        /\ \A i \in DOMAIN orch.candidates :
              \E m, n \in DOMAIN Entries :
                 /\ m # n
                 /\ NameOf(m) # NameOf(n)
                 /\ orch.candidates[i].brain_a = NameOf(m)
                 /\ orch.candidates[i].brain_b = NameOf(n)
                 /\ orch.candidates[i].claim_a \in TracedOf(m)
                 /\ orch.candidates[i].claim_b \in TracedOf(n)
                 /\ Qualifies(orch.candidates[i].claim_a, orch.candidates[i].claim_b)
        /\ \A m, n \in DOMAIN Entries :
              m < n => Cardinality(CandidatesFor(m, n)) <= MaxPairsPerBrainCombo
        /\ \A m, n \in DOMAIN Entries :
              m < n =>
                 \A x \in TracedOf(m), y \in TracedOf(n) :
                    Qualifies(x, y) /\ ~Kept(m, n, x, y) =>
                       \A i \in CandidatesFor(m, n) :
                          SharedTokens(x, y) <= SharedTokens(orch.candidates[i].claim_a,
                                                            orch.candidates[i].claim_b)

\* C22 (as stated): two processed sources whose traces hold a qualifying
\* pair of claims have at least one candidate, whatever the length of the
\* traces.
C22_Complete ==
    CandidatesBuilt =>
        \A m, n \in DOMAIN Entries :
           m < n /\ (\E x \in TracedOf(m), y \in TracedOf(n) : Qualifies(x, y))
              => CandidatesFor(m, n) # {}

----------------------------------------------------------------------------
(* Input errors                                                            *)

BlankQuestion == Strip(request.question) = ""

NoSourceLeft == request.brain_names = <<>> \/ Requested = <<>>

BadLimit == request.max_brains <= 0 \/ request.max_files_per_brain <= 0

\* C23: with a blank question, with a source list that is empty or holds
\* blank names only, or with max_brains or max_files_per_brain <= 0, the
\* query raises MultiBrainInputError, no call of the language model is made
\* and no ledger file of a knowledge base is written.
C23_InputErrorsFirst ==
    (orch.pc # "start" /\ (BlankQuestion \/ NoSourceLeft \/ BadLimit)) =>
        /\ orch.pc = "failed"
        /\ orch.error.kind = "MultiBrainInputError"
        /\ ~orch.returned
        /\ modelCalls = <<>>
        /\ brainsDir \in DiskInputs
        /\ snapFile = NoFile
        /\ events = <<>>

\* A request whose only defect is a limit of 0 has failed.
C23_Witness ==
    /\ orch.pc = "failed"
    /\ ~BlankQuestion
    /\ ~NoSourceLeft
    /\ BadLimit
    /\ \A i \in DOMAIN Requested : BrainAt(Requested[i]).exists

----------------------------------------------------------------------------
(* Reconciliation: postcondition, refresh, frame                           *)

\* The call of p leaves track_file_claims: it returns or it raises.
Leaves(p) == pc[p] = "t_exit" /\ pc'[p] = "idle"

ActiveIdsOf(claims, file_path) ==
    {claims[i].claim_id : i \in {j \in DOMAIN claims : /\ claims[j].file_path = file_path
                                                       /\ claims[j].status = "active"}}

\* C24: when track_file_claims(F, content) returns or raises, the active
\* claims of F in the snapshot are exactly the claims extracted from
\* content, and the created and unchanged counts it returns add up to the
\* number of extracted claims.
C24_Postcondition ==
    [][\A p \in Procs :
          Leaves(p) =>
             /\ ActiveIdsOf(Snapshot', call[p].file_path) = NewIds(p)
             /\ result'[p].outcome \in {"returned", "raised"}
             /\ result'[p].outcome = "returned" =>
                    result'[p].created + result'[p].unchanged = Len(Extracted(p))]_vars

\* A call has returned that created a claim, kept one and superseded one.
C24_Witness ==
    \E p \in Procs :
        /\ result[p].outcome = "returned"
        /\ result[p].created >= 1
        /\ result[p].unchanged >= 1
        /\ result[p].superseded >= 1

\* C25 (as stated): a provenance_warning event of a track_file_claims call
\* is in the event log only when the snapshot of that call is on disk.
C25_PersistBeforeWarning ==
    \A p \in Procs :
        ( /\ call[p].op = "track_file_claims"
          /\ \E j \in DOMAIN events : events[j] \in SeqToSet(WarningEventsOfCall(p)) )
        => snapFile = Written(work[p].current)

\* The ids the call of p extracted that were active in the snapshot it
\* loaded.
Stays(p) ==
    {id \in NewIds(p) : Status(work[p].base, id) = "active"}

\* C26: when the id of an extracted claim is the id of an active entry of
\* the snapshot, the entry keeps its revision_id, created_at and
\* created_by_run, its updated_by_run is the run id of the call, it is
\* counted as unchanged and the call appends no event for it.
C26_RefreshInPlace ==
    \A p \in Procs :
        pc[p] \in {"t_save", "t_write", "t_exit"} =>
            /\ \A id \in Stays(p) :
                  /\ Status(work[p].current, id) = "active"
                  /\ Get(work[p].current, id).revision_id = Get(work[p].base, id).revision_id
                  /\ Get(work[p].current, id).created_at = Get(work[p].base, id).created_at
                  /\ Get(work[p].current, id).created_by_run
                        = Get(work[p].base, id).created_by_run
                  /\ Get(work[p].current, id).updated_by_run = call[p].run_id
                  /\ \A i \in DOMAIN work[p].emitted : work[p].emitted[i].claim_id # id
            /\ work[p].unchanged >= Cardinality(Stays(p))
            /\ work[p].created = Cardinality(NewIds(p) \ Stays(p))
            /\ pc[p] = "t_exit" =>
                  \A id \in Stays(p) : Get(Snapshot, id) = Get(work[p].current, id)

\* A run refreshes a claim that another run created at an earlier time.
C26_Witness ==
    \E p \in Procs :
        /\ pc[p] = "t_exit"
        /\ \E id \in Stays(p) :
              /\ Get(Snapshot, id).created_by_run # call[p].run_id
              /\ Get(Snapshot, id).updated_by_run = call[p].run_id
              /\ Get(Snapshot, id).created_at < Get(Snapshot, id).updated_at

----------------------------------------------------------------------------
(* Opting out of the claim traces                                          *)

\* What the query returns when it is asked for the traces, the replies of
\* the model being the same: only the last stage reads include_claim_trace.
WithTraces ==
    MultiBrainQueryResult(orch.synthesis, ReturnedPerBrain(orch.per_internal, TRUE),
                          orch.conflicts, orch.warnings)

\* C27 (as stated): a query that opted out of the traces returns what the
\* query with the traces returns, but for the claim_trace lists of the
\* per_brain entries, which are empty.
C27_OnlyTracesDiffer ==
    (orch.pc = "done" /\ ~request.include_claim_trace) =>
        /\ orch.value.answer = WithTraces.answer
        /\ orch.value.conflicts = WithTraces.conflicts
        /\ orch.value.sources = WithTraces.sources
        /\ orch.value.warnings = WithTraces.warnings
        /\ orch.value.traceability.overall_completeness_ratio
              = WithTraces.traceability.overall_completeness_ratio
        /\ orch.value.per_brain
              = [i \in DOMAIN WithTraces.per_brain |->
                    [WithTraces.per_brain[i] EXCEPT !.claim_trace = <<>>]]

----------------------------------------------------------------------------
(* Snapshot and event log                                                  *)

\* The positions of the lifecycle events of a claim in the log.
LifecycleOf(id) == {j \in LifecycleEvents(events) : events[j].claim_id = id}

\* The type of the last lifecycle event of a claim that has one.
LastLifecycle(id) ==
    events[CHOOSE j \in LifecycleOf(id) : \A k \in LifecycleOf(id) : k <= j].event_type

\* C28: whenever the lock is free, every claim of the snapshot has a
\* claim_created event, every claim with a claim_created event is in the
\* snapshot, and a claim is superseded exactly when its last claim_created
\* or claim_superseded event is claim_superseded, active exactly when it is
\* claim_created; also after a call has raised in strict mode.
C28_SnapshotMatchesLog ==
    lock = NoProc =>
        /\ snapFile.state # "truncated"
        /\ \A id \in Keys(Snapshot) :
              /\ EventCount(events, "claim_created", id) >= 1
              /\ Status(Snapshot, id) = "superseded"
                    <=> LastLifecycle(id) = "claim_superseded"
              /\ Status(Snapshot, id) = "active"
                    <=> LastLifecycle(id) = "claim_created"
        /\ \A j \in DOMAIN events :
              events[j].event_type = "claim_created" => events[j].claim_id \in Keys(Snapshot)

\* The lock is free after a call has raised in strict mode, and the
\* snapshot holds an active and a superseded claim.
C28_Witness ==
    /\ lock = NoProc
    /\ \E p \in Procs : result[p].outcome = "raised"
    /\ \E id \in Keys(Snapshot) : Status(Snapshot, id) = "superseded"
    /\ \E id \in Keys(Snapshot) : Status(Snapshot, id) = "active"

----------------------------------------------------------------------------
(* Frame of reconciliation                                                 *)

\* The entries of a snapshot that belong to other files than file_path.
OtherFiles(claims, file_path) ==
    {claims[i] : i \in {j \in DOMAIN claims : claims[j].file_path # file_path}}

\* The events a step appends to the log.
Appended == SubSeq(events', Len(events) + 1, Len(events'))

\* C29: a step of track_file_claims(F, ...) appends only events of F and
\* leaves the documents of the other knowledge bases alone, and the snapshot
\* it saves holds the entries of the other files exactly as it loaded them.
C29_Frame ==
    [][\A p \in Procs :
          (call[p].op = "track_file_claims" /\ pc'[p] # pc[p]) =>
              /\ brainsDir' = brainsDir
              /\ \A j \in DOMAIN Appended : Appended[j].file_path = call[p].file_path
              /\ pc'[p] = "t_exit" =>
                    /\ snapFile'.state = "full"
                    /\ OtherFiles(load_current_claims(snapFile'), call[p].file_path)
                          = OtherFiles(work[p].base, call[p].file_path)]_vars

\* A call on one file has saved a snapshot in which it superseded a claim
\* of that file while the loaded snapshot held an active claim of another.
C29_Witness ==
    \E p \in Procs :
        /\ pc[p] = "t_exit"
        /\ work[p].superseded > 0
        /\ work[p].created > 0
        /\ \E c \in OtherFiles(work[p].base, call[p].file_path) :
              c.status = "active" /\ c \in OtherFiles(Snapshot, call[p].file_path)

----------------------------------------------------------------------------
(* The lock after a failure                                                *)

\* Process p is blocked in flock, in any of the four operations.
Blocked(p) == pc[p] \in {"t_lock", "a_lock", "r_lock"}

\* Process p raises in this step, out of the critical section.
RaisesNow(p) == result[p].outcome # "raised" /\ result'[p].outcome = "raised"

\* C30: a step in which track_file_claims raises, in strict mode or on a
\* failing read or write, leaves the lock free; and once a call has raised,
\* every call that waits for the lock gets it and completes.
C30_LockReleasedOnFailure ==
    /\ [][\A p \in Procs : RaisesNow(p) => lock' = NoProc]_vars
    /\ \A p \in Procs :
          (Blocked(p) /\ \E q \in Procs \ {p} : result[q].outcome = "raised")
              ~> (pc[p] = "idle" /\ result[p].outcome # "none")

\* One call has raised, the lock is free, and the call of the other process
\* on the same knowledge base is waiting for the lock.
C30_Witness ==
    \E p \in Procs : \E q \in Procs \ {p} :
        /\ result[q].outcome = "raised"
        /\ pc[q] = "idle"
        /\ lock = NoProc
        /\ Blocked(p)

====
